---- MODULE Spec2Model ----
(***************************************************************************)
(* DORA metrics collector: the relational store (deployments,              *)
(* pull_requests, incidents, deployment_prs, dora_metrics), the webhook    *)
(* handlers, the bulk-import backfills, the data-link repair script and    *)
(* the per-day aggregation, as state machines over the stored tables.      *)
(*                                                                         *)
(* Timestamps are whole hours since the midnight of day 0 (UTC); a day is  *)
(* 24 hours.  A table is the set of its rows; a row is a record of the     *)
(* columns the code reads or writes.  deployment_prs, whose rows carry no  *)
(* surrogate key, is a bag: (deployment_id, pr_id) |-> number of rows.     *)
(***************************************************************************)
EXTENDS Integers, Sequences, FiniteSets, TLC

VARIABLES deployments, pull_requests, incidents, deployment_prs, dora_metrics,
          today, txns, last

vars == <<deployments, pull_requests, incidents, deployment_prs, dora_metrics,
          today, txns, last>>

tables == <<deployments, pull_requests, incidents, deployment_prs>>

(***************************************************************************)
(* txns: the aggregation passes in flight.  main.py runs process_metrics   *)
(* on the scheduler thread and once at start-up, webhook_server.py runs it *)
(* on a request to /calculate; each call opens its own connection, so its  *)
(* statements form one transaction that ends at conn.commit().  A pass     *)
(* keeps its position (pc), the repositories still to process, the         *)
(* measures it has selected so far (row), the rows it has written but not  *)
(* committed (written), and whether another pass committed while it ran.   *)
(***************************************************************************)
Passes == {"scheduler", "calculate"}

NoRow == [repo_id |-> 0, metric_date |-> 0, deployment_frequency |-> 0,
          lead_time_hours |-> <<0, 1>>, change_failure_rate |-> <<0, 1>>,
          mttr_hours |-> <<0, 1>>]

Idle == [pc |-> "idle", repos |-> <<>>, row |-> NoRow, written |-> {},
         overlapped |-> FALSE]

NoTxns == [p \in Passes |-> Idle]

(***************************************************************************)
(* Bounds of the model.                                                    *)
(***************************************************************************)
LinkDeployments == 2
LinkPullRequests == 1
IncDeployments == 2
IncIssues == 1
AggDeployments == 2

Repos == {1, 2}

(***************************************************************************)
(* SQL NULL / Python None in a BIGINT or TIMESTAMPTZ column.               *)
(***************************************************************************)
NULL == -1

HoursPerDay == 24
LinkWindowHours == 24

(***************************************************************************)
(* Text.  A label is named by a string; Chars gives its characters, so     *)
(* that lower() and the substring test `term in text` are computed.        *)
(***************************************************************************)
Chars ==
    "" :> <<>> @@
    "production" :> <<"p","r","o","d","u","c","t","i","o","n">> @@
    "Prod" :> <<"P","r","o","d">> @@
    "staging" :> <<"s","t","a","g","i","n","g">> @@
    "main" :> <<"m","a","i","n">> @@
    "release" :> <<"r","e","l","e","a","s","e">> @@
    "Deploy" :> <<"D","e","p","l","o","y">> @@
    "ci" :> <<"c","i">> @@
    "Incident" :> <<"I","n","c","i","d","e","n","t">> @@
    "bug" :> <<"b","u","g">> @@
    "sev1" :> <<"s","e","v","1">>

LowerChar(c) ==
    CASE c = "P" -> "p"
      [] c = "D" -> "d"
      [] c = "I" -> "i"
      [] OTHER -> c

Lower(text) == [i \in 1..Len(text) |-> LowerChar(text[i])]

\* Python `term in text` for strings
Contains(text, term) ==
    \E i \in 1..(Len(text) - Len(term) + 1) :
        SubSeq(text, i, i + Len(term) - 1) = term

\* payload.get('workflow_run') of a stored or inbound payload: the key may be
\* missing, may hold JSON null, or may hold an object with a name.
KeyAbsent == "<absent>"
JsonNull == "<null>"

\* dict.get(key, '') on a payload projection: the default when the key is missing
GetOrEmpty(v) == IF v = KeyAbsent THEN "" ELSE v

(***************************************************************************)
(* Production classification.                                              *)
(***************************************************************************)
EventEnvTerms == {<<"p","r","o","d">>,
                  <<"p","r","o","d","u","c","t","i","o","n">>,
                  <<"l","i","v","e">>}
EventWorkflowTerms == {<<"d","e","p","l","o","y">>,
                       <<"p","r","o","d">>,
                       <<"r","e","l","e","a","s","e">>}

\* src/dora_calculations.py detect_production_deployment(payload): reads the
\* payload's top-level 'environment' and 'workflow_run' keys
detect_production_deployment(payload) ==
    LET environment == Lower(Chars[GetOrEmpty(payload.environment)])
        workflow_name ==
            IF payload.workflow_run \in {KeyAbsent, JsonNull}
            THEN <<>>
            ELSE Lower(Chars[payload.workflow_run])
    IN  \/ \E t \in EventEnvTerms : Contains(environment, t)
        \/ \E t \in EventWorkflowTerms : Contains(workflow_name, t)

PRODUCTION_KEYWORDS == {<<"p","r","o","d","u","c","t","i","o","n">>,
                        <<"p","r","o","d">>,
                        <<"r","e","l","e","a","s","e">>,
                        <<"d","e","p","l","o","y">>,
                        <<"m","a","i","n">>,
                        <<"l","i","v","e">>}

\* src/app/metrics_processor.py is_production_deployment(environment, payload);
\* a JSON null workflow_run raises inside the try and the function returns False
is_production_deployment(environment, payload) ==
    IF environment # "" /\ (\E k \in PRODUCTION_KEYWORDS :
                                Contains(Lower(Chars[environment]), k))
    THEN TRUE
    ELSE IF payload.workflow_run = JsonNull
    THEN FALSE
    ELSE LET workflow_name == Lower(Chars[GetOrEmpty(payload.workflow_run)])
         IN  \E k \in PRODUCTION_KEYWORDS : Contains(workflow_name, k)

(***************************************************************************)
(* Tables.                                                                 *)
(***************************************************************************)
Abs(x) == IF x < 0 THEN -x ELSE x

\* (INSERT INTO deployments ... ON CONFLICT (deployment_id) DO UPDATE SET every
\* column)
ReplaceDeployment(tbl, row) ==
    {d \in tbl : d.deployment_id # row.deployment_id} \cup {row}

\* INSERT INTO deployments ... ON CONFLICT (deployment_id) DO UPDATE SET
\* status, payload
UpsertDeployment(tbl, row) ==
    IF \E d \in tbl : d.deployment_id = row.deployment_id
    THEN {IF d.deployment_id = row.deployment_id
          THEN [d EXCEPT !.status = row.status, !.payload = row.payload]
          ELSE d : d \in tbl}
    ELSE tbl \cup {row}

\* INSERT INTO pull_requests ... ON CONFLICT (pr_id) DO UPDATE SET merged_at,
\* commit_sha, pr_name, first_commit_at, payload
UpsertPullRequest(tbl, row) ==
    IF \E p \in tbl : p.pr_id = row.pr_id
    THEN {IF p.pr_id = row.pr_id
          THEN [p EXCEPT !.merged_at = row.merged_at,
                         !.commit_sha = row.commit_sha,
                         !.first_commit_at = row.first_commit_at]
          ELSE p : p \in tbl}
    ELSE tbl \cup {row}

\* INSERT INTO incidents (..., deployment_id defaults to NULL) ON CONFLICT
\* (issue_id) DO UPDATE SET closed_at, is_incident, payload
UpsertIncident(tbl, row) ==
    IF \E i \in tbl : i.issue_id = row.issue_id
    THEN {IF i.issue_id = row.issue_id
          THEN [i EXCEPT !.closed_at = row.closed_at,
                         !.is_incident = row.is_incident]
          ELSE i : i \in tbl}
    ELSE tbl \cup {row}

\* INSERT INTO deployment_prs ... ON CONFLICT DO NOTHING: the primary key
\* (deployment_id, pr_id) rejects a pair that is already a row
\* (a table without the key: every selected pair becomes one more row)
InsertLinksDup(links, pairs) ==
    [k \in DOMAIN links \cup pairs |->
        (IF k \in DOMAIN links THEN links[k] ELSE 0) + (IF k \in pairs THEN 1 ELSE 0)]

\* (an INSERT without the ON CONFLICT clause: one conflicting pair fails the
\* whole statement)
InsertLinksAbortOnConflict(links, pairs) ==
    IF pairs \cap DOMAIN links # {}
    THEN links
    ELSE [k \in DOMAIN links \cup pairs |-> 1]

InsertLinks(links, pairs) ==
    [k \in DOMAIN links \cup pairs |->
        IF k \in DOMAIN links THEN links[k] ELSE 1]

EmptyLinks == [k \in {} |-> 0]

\* the rows of deployment_prs as a set of pairs
LinkSet == DOMAIN deployment_prs

\* a TEXT column holding SQL NULL (a JSON null commit hash)
NullSha == "<null>"

\* SQL `a = b` in a join or WHERE clause: never true of a NULL
SqlEq(a, b) == a # NullSha /\ b # NullSha /\ a = b

RECURSIVE UpsertDeployments(_, _)
UpsertDeployments(tbl, rows) ==
    IF rows = {} THEN tbl
    ELSE LET r == CHOOSE x \in rows : TRUE
         IN  UpsertDeployments(UpsertDeployment(tbl, r), rows \ {r})

RECURSIVE UpsertPullRequests(_, _)
UpsertPullRequests(tbl, rows) ==
    IF rows = {} THEN tbl
    ELSE LET r == CHOOSE x \in rows : TRUE
         IN  UpsertPullRequests(UpsertPullRequest(tbl, r), rows \ {r})

RECURSIVE UpsertIncidents(_, _)
UpsertIncidents(tbl, rows) ==
    IF rows = {} THEN tbl
    ELSE LET r == CHOOSE x \in rows : TRUE
         IN  UpsertIncidents(UpsertIncident(tbl, r), rows \ {r})

(***************************************************************************)
(* Linker queries.                                                         *)
(***************************************************************************)
\* fix_data_links step 1: deployments JOIN pull_requests ON commit_sha
\* WHERE d.repo_id = pr.repo_id
MatchingPairs(deps, prs) ==
    {<<x[1].deployment_id, x[2].pr_id>> :
        x \in {y \in deps \X prs : /\ SqlEq(y[1].commit_sha, y[2].commit_sha)
                                   /\ y[1].repo_id = y[2].repo_id}}

\* backfill step 5: the same join WHERE d.repo_id = %s AND pr.repo_id = %s
MatchingPairsOfRepo(deps, prs, repo_id) ==
    MatchingPairs({d \in deps : d.repo_id = repo_id},
                  {p \in prs : p.repo_id = repo_id})

\* link_pr_to_deployment: SELECT deployment_id, %s FROM deployments
\* WHERE repo_id = %s AND commit_sha = %s
PairsOfPr(deps, repo_id, pr_id, commit_sha) ==
    {<<d.deployment_id, pr_id>> :
        d \in {e \in deps : e.repo_id = repo_id /\ SqlEq(e.commit_sha, commit_sha)}}

\* deployments of the repository with created_at BETWEEN t - 24 HOURS AND
\* t + 24 HOURS (BETWEEN includes both ends)
InWindow(deps, repo_id, t) ==
    {d \in deps : /\ d.repo_id = repo_id
                  /\ d.created_at >= t - LinkWindowHours
                  /\ d.created_at <= t + LinkWindowHours}

\* ORDER BY ABS(EXTRACT(EPOCH FROM (d.created_at - t))), first row: the rows
\* that may come first; the order among equal keys is not defined by SQL
Closest(deps, repo_id, t) ==
    LET cand == InWindow(deps, repo_id, t)
    IN  {d \in cand : \A e \in cand : Abs(d.created_at - t) <= Abs(e.created_at - t)}

\* backfill step 6: WHERE d.repo_id = i.repo_id AND d.created_at <= i.created_at
\* ORDER BY d.created_at DESC LIMIT 1
LatestBefore(deps, repo_id, t) ==
    LET cand == {d \in deps : d.repo_id = repo_id /\ d.created_at <= t}
    IN  {d \in cand : \A e \in cand : e.created_at <= d.created_at}

(***************************************************************************)
(* src/fix_data_links.py fix_data_links(): one transaction of four         *)
(* statements.                                                             *)
(***************************************************************************)
StoredDeploymentIds(deps) == {d.deployment_id : d \in deps}

\* step 2: UPDATE pull_requests SET first_commit_at = created_at
\* WHERE first_commit_at IS NULL
FillFirstCommit(prs) ==
    {IF p.first_commit_at = NULL THEN [p EXCEPT !.first_commit_at = p.created_at]
     ELSE p : p \in prs}

\* (the CTE without its `i.deployment_id IS NULL` condition)
EligibleIncidentsAnyRef(incs, deps) ==
    {i \in incs : InWindow(deps, i.repo_id, i.created_at) # {}}

\* step 3: the incidents the CTE joins to at least one deployment
EligibleIncidents(incs, deps) ==
    {i \in incs : /\ i.deployment_id = NULL
                  /\ InWindow(deps, i.repo_id, i.created_at) # {}}

\* step 3: UPDATE incidents SET deployment_id = the rn = 1 row of its partition
LinkClosest(incs, deps, pick) ==
    {IF i \in EligibleIncidents(incs, deps)
     THEN [i EXCEPT !.deployment_id = pick[i.issue_id]]
     ELSE i : i \in incs}

\* step 4: the incidents the LIMIT 1 subquery may return
Unclosed(incs) == {i \in incs : i.closed_at = NULL /\ i.is_incident}

HoursToAutoClose == 3

fix_data_links ==
    /\ deployment_prs' = InsertLinks(deployment_prs,
                                     MatchingPairs(deployments, pull_requests))
    /\ pull_requests' = FillFirstCommit(pull_requests)
    /\ \E pick \in [{i.issue_id : i \in EligibleIncidents(incidents, deployments)}
                        -> StoredDeploymentIds(deployments)] :
          /\ \A i \in EligibleIncidents(incidents, deployments) :
                \E d \in Closest(deployments, i.repo_id, i.created_at) :
                    pick[i.issue_id] = d.deployment_id
          /\ LET linked == LinkClosest(incidents, deployments, pick)
             IN  IF Unclosed(linked) = {}
                 THEN incidents' = linked
                 ELSE \E u \in Unclosed(linked) :
                        incidents' = (linked \ {u}) \cup
                            {[u EXCEPT !.closed_at = u.created_at + HoursToAutoClose]}
    /\ last' = [op |-> "fix_data_links", repo |-> 0,
                again |-> last.op = "fix_data_links", id |-> 0, over |-> FALSE]
    /\ UNCHANGED <<deployments, dora_metrics, today, txns>>

(***************************************************************************)
(* src/webhook_server.py: the handlers of one inbound event, each followed *)
(* by the commit of webhook().                                             *)
(***************************************************************************)
handle_deployment_event(payload) ==
    /\ IF payload.state = "success" /\ detect_production_deployment(payload)
       THEN deployments' = UpsertDeployment(deployments,
                [repo_id |-> payload.repo_id,
                 deployment_id |-> payload.deployment_id,
                 environment |-> payload.deployment_environment,
                 status |-> payload.state,
                 created_at |-> payload.created_at,
                 commit_sha |-> payload.sha,
                 payload |-> [environment |-> payload.environment,
                              workflow_run |-> payload.workflow_run]])
       ELSE UNCHANGED deployments
    /\ last' = [op |-> "handle_deployment_event", repo |-> payload.repo_id,
                again |-> FALSE, id |-> 0, over |-> FALSE]
    /\ UNCHANGED <<pull_requests, incidents, deployment_prs, dora_metrics, today, txns>>

handle_pull_request_event(payload) ==
    /\ IF payload.action # "closed" \/ ~payload.merged
       THEN UNCHANGED <<pull_requests, deployment_prs>>
       ELSE /\ pull_requests' = UpsertPullRequest(pull_requests,
                    [repo_id |-> payload.repo_id,
                     pr_id |-> payload.pr_id,
                     merged_at |-> payload.merged_at,
                     created_at |-> payload.created_at,
                     first_commit_at |-> payload.first_commit_at,
                     commit_sha |-> payload.merge_commit_sha])
            /\ IF payload.merge_commit_sha \notin {"", NullSha}
               THEN deployment_prs' = InsertLinks(deployment_prs,
                        PairsOfPr(deployments, payload.repo_id, payload.pr_id,
                                  payload.merge_commit_sha))
               ELSE UNCHANGED deployment_prs
    /\ last' = [op |-> "handle_pull_request_event", repo |-> payload.repo_id,
                again |-> FALSE, id |-> 0, over |-> FALSE]
    /\ UNCHANGED <<deployments, incidents, dora_metrics, today, txns>>

IssueActions == {"opened", "closed", "reopened", "labeled", "unlabeled"}

\* UPDATE incidents SET deployment_id = (SELECT ... LIMIT 1) WHERE issue_id = %s:
\* an empty subquery yields NULL
SetNearest(incs, issue_id, deployment_id) ==
    {IF i.issue_id = issue_id THEN [i EXCEPT !.deployment_id = deployment_id]
     ELSE i : i \in incs}

handle_issues_event(payload) ==
    /\ IF payload.action \notin IssueActions
       THEN UNCHANGED incidents
       ELSE LET stored == UpsertIncident(incidents,
                    [repo_id |-> payload.repo_id,
                     issue_id |-> payload.issue_id,
                     created_at |-> payload.created_at,
                     closed_at |-> payload.closed_at,
                     is_incident |-> TRUE,
                     deployment_id |-> NULL])
                near == Closest(deployments, payload.repo_id, payload.created_at)
            IN  IF near = {}
                THEN incidents' = SetNearest(stored, payload.issue_id, NULL)
                ELSE \E d \in near :
                        incidents' = SetNearest(stored, payload.issue_id,
                                                d.deployment_id)
    /\ last' = [op |-> IF payload.action \in IssueActions
                       THEN "handle_issues_event" ELSE "issues_event_ignored",
                repo |-> payload.repo_id, again |-> FALSE,
                id |-> payload.issue_id, over |-> FALSE]
    /\ UNCHANGED <<deployments, pull_requests, deployment_prs, dora_metrics, today, txns>>

(***************************************************************************)
(* src/app/github_backfill.py backfill(): one transaction.  prs, deps and  *)
(* issues are the records the remote API returned that pass the merged /   *)
(* success / not-a-pull-request / updated-since filters; pr_bound says     *)
(* whether the pull-request loop iterated at all (the issue loop reads the *)
(* loop variable `pr`, and a NameError there rolls the transaction back).  *)
(***************************************************************************)
BackfillDeploymentRow(repo_id, d) ==
    [repo_id |-> repo_id,
     deployment_id |-> d.deployment_id,
     environment |-> d.environment,
     status |-> "success",
     created_at |-> d.created_at,
     commit_sha |-> d.sha,
     payload |-> [environment |-> KeyAbsent, workflow_run |-> KeyAbsent]]

BackfillPullRequestRow(repo_id, pr) ==
    [repo_id |-> repo_id,
     pr_id |-> pr.pr_id,
     merged_at |-> pr.merged_at,
     created_at |-> pr.created_at,
     first_commit_at |-> pr.first_commit_at,
     commit_sha |-> pr.merge_commit_sha]

\* insert_incident: is_incident = True whatever the labels
BackfillIncidentRow(repo_id, issue) ==
    [repo_id |-> repo_id,
     issue_id |-> issue.issue_id,
     created_at |-> issue.created_at,
     closed_at |-> issue.closed_at,
     is_incident |-> TRUE,
     deployment_id |-> NULL]

\* step 6: the incidents whose subquery returns a row
BackfillEligible(incs, deps, repo_id) ==
    {i \in incs : /\ i.repo_id = repo_id
                  /\ i.deployment_id = NULL
                  /\ LatestBefore(deps, i.repo_id, i.created_at) # {}}

LinkLatestBefore(incs, deps, repo_id, pick) ==
    {IF i \in BackfillEligible(incs, deps, repo_id)
     THEN [i EXCEPT !.deployment_id = pick[i.issue_id]]
     ELSE i : i \in incs}

backfill(repo_id, pr_bound, prs, deps, issues) ==
    IF issues # {} /\ ~pr_bound
    THEN /\ last' = [op |-> "backfill_rollback", repo |-> repo_id, again |-> FALSE,
                  id |-> 0, over |-> FALSE]
         /\ UNCHANGED <<deployments, pull_requests, incidents, deployment_prs,
                        dora_metrics, today, txns>>
    ELSE LET new_prs == UpsertPullRequests(pull_requests,
                            {BackfillPullRequestRow(repo_id, pr) : pr \in prs})
             new_deps == UpsertDeployments(deployments,
                            {BackfillDeploymentRow(repo_id, d) : d \in deps})
             new_incs == UpsertIncidents(incidents,
                            {BackfillIncidentRow(repo_id, i) : i \in issues})
         IN  /\ pull_requests' = new_prs
             /\ deployments' = new_deps
             /\ deployment_prs' = InsertLinks(deployment_prs,
                                    MatchingPairsOfRepo(new_deps, new_prs, repo_id))
             /\ \E pick \in [{i.issue_id : i \in BackfillEligible(new_incs, new_deps, repo_id)}
                                -> StoredDeploymentIds(new_deps)] :
                   /\ \A i \in BackfillEligible(new_incs, new_deps, repo_id) :
                         \E d \in LatestBefore(new_deps, i.repo_id, i.created_at) :
                             pick[i.issue_id] = d.deployment_id
                   /\ incidents' = LinkLatestBefore(new_incs, new_deps, repo_id, pick)
             /\ last' = [op |-> "backfill", repo |-> repo_id,
                         again |-> last.op = "backfill" /\ last.repo = repo_id,
                         id |-> 0, over |-> FALSE]
             /\ UNCHANGED <<dora_metrics, today, txns>>

(***************************************************************************)
(* The environment.  The provider assigns every identifier to one          *)
(* repository, and a deployment's commit, a pull request's creation time   *)
(* and an issue's creation time never change: an event or an imported      *)
(* record about a stored identifier repeats them.                          *)
(***************************************************************************)
RepoOfDeployment(id) == IF id <= 2 THEN 1 ELSE 2
RepoOfPr(id) == IF id <= 1 THEN 1 ELSE 2
RepoOfIssue(id) == IF id <= 1 THEN 1 ELSE 2

SameDeployment(deployment_id, sha, environment) ==
    \A d \in deployments :
        d.deployment_id = deployment_id =>
            d.commit_sha = sha /\ d.environment = environment

SamePullRequest(pr_id, created_at) ==
    \A p \in pull_requests : p.pr_id = pr_id => p.created_at = created_at

SameIssue(issue_id, created_at) ==
    \A i \in incidents : i.issue_id = issue_id => i.created_at = created_at

\* the listings with pairwise distinct identifiers drawn from `records`
DistinctDeployments(records) ==
    {S \in SUBSET records : \A x, y \in S : x.deployment_id = y.deployment_id => x = y}

DistinctPullRequests(records) ==
    {S \in SUBSET records : \A x, y \in S : x.pr_id = y.pr_id => x = y}

DistinctIssues(records) ==
    {S \in SUBSET records : \A x, y \in S : x.issue_id = y.issue_id => x = y}

Empty ==
    /\ deployments = {}
    /\ pull_requests = {}
    /\ incidents = {}
    /\ deployment_prs = EmptyLinks
    /\ dora_metrics = {}
    /\ today = 0
    /\ txns = NoTxns
    /\ last = [op |-> "init", repo |-> 0, again |-> FALSE, id |-> 0, over |-> FALSE]

(***************************************************************************)
(* Spec: pull requests, deployments and the link table.  Events and        *)
(* imports for both repositories, commits a and b, one instant.            *)
(***************************************************************************)
Shas == {"a", "b"}

LinkDeploymentEvents ==
    {[repo_id |-> RepoOfDeployment(id), deployment_id |-> id,
      deployment_environment |-> "production", sha |-> sha,
      state |-> "success", created_at |-> 0,
      environment |-> KeyAbsent, workflow_run |-> wf] :
        id \in 1..LinkDeployments, sha \in Shas, wf \in {"Deploy", "ci"}}

LinkPullRequestEvents ==
    {[action |-> "closed", merged |-> m, repo_id |-> RepoOfPr(id), pr_id |-> id,
      merge_commit_sha |-> sha, created_at |-> 0, merged_at |-> 0,
      first_commit_at |-> 0] :
        id \in 1..LinkPullRequests, sha \in Shas, m \in BOOLEAN}

LinkApiDeployments(repo_id) ==
    {[deployment_id |-> id, environment |-> "production", sha |-> sha,
      created_at |-> 0] : id \in {i \in 1..LinkDeployments : RepoOfDeployment(i) = repo_id},
                                sha \in Shas}

LinkApiPullRequests(repo_id) ==
    {[pr_id |-> id, merge_commit_sha |-> sha, created_at |-> 0, merged_at |-> 0,
      first_commit_at |-> 0] : id \in {i \in 1..LinkPullRequests : RepoOfPr(i) = repo_id},
                              sha \in Shas}

DeploymentEvent(events) ==
    \E payload \in events :
        /\ SameDeployment(payload.deployment_id, payload.sha,
                          payload.deployment_environment)
        /\ handle_deployment_event(payload)

PullRequestEvent(events) ==
    \E payload \in events :
        /\ SamePullRequest(payload.pr_id, payload.created_at)
        /\ handle_pull_request_event(payload)

IssuesEvent(events) ==
    \E payload \in events :
        /\ SameIssue(payload.issue_id, payload.created_at)
        /\ handle_issues_event(payload)

\* api: what the remote API lists per repository (prs, deps, issues)
Backfill(api) ==
    \E repo_id \in Repos :
        \E prs \in DistinctPullRequests(api.prs[repo_id]),
           deps \in DistinctDeployments(api.deps[repo_id]),
           issues \in DistinctIssues(api.issues[repo_id]),
           pr_bound \in BOOLEAN :
            /\ prs # {} => pr_bound
            /\ issues = {} => pr_bound
            /\ \A d \in deps : SameDeployment(d.deployment_id, d.sha, d.environment)
            /\ \A p \in prs : SamePullRequest(p.pr_id, p.created_at)
            /\ \A i \in issues : SameIssue(i.issue_id, i.created_at)
            /\ backfill(repo_id, pr_bound, prs, deps, issues)

LinkApi ==
    [prs |-> [r \in Repos |-> LinkApiPullRequests(r)],
     deps |-> [r \in Repos |-> LinkApiDeployments(r)],
     issues |-> [r \in Repos |-> {}]]

Init == Empty

Next ==
    \/ DeploymentEvent(LinkDeploymentEvents)
    \/ PullRequestEvent(LinkPullRequestEvents)
    \/ fix_data_links
    \/ Backfill(LinkApi)

Spec == Init /\ [][Next]_vars

(***************************************************************************)
(* Linking of pull requests to deployments.                                *)
(***************************************************************************)
\* every same-repository pair with equal commit hashes among `deps` and `prs`
\* is a row of deployment_prs
PairsLinked(deps, prs) ==
    \A d \in deps, p \in prs :
        (d.repo_id = p.repo_id /\ d.commit_sha = p.commit_sha
                               /\ d.commit_sha # NullSha)
            => <<d.deployment_id, p.pr_id>> \in LinkSet

C2_LinkingIdempotentAppendOnly ==
    /\ [](\A k \in DOMAIN deployment_prs : deployment_prs[k] = 1)
    /\ [][\A k \in DOMAIN deployment_prs : k \in DOMAIN deployment_prs']_vars
    /\ [][(last'.again /\ deployments' = deployments
                       /\ pull_requests' = pull_requests)
            => deployment_prs' = deployment_prs]_vars

\* a pass has run a second time in a row over a store with at least one link
C2_Witness ==
    /\ last.op \in {"fix_data_links", "backfill"}
    /\ last.again
    /\ LinkSet # {}

(***************************************************************************)
(* SpecIncident: incidents and deployments.  An issue is created at hour   *)
(* 34; deployments are recorded at hour 0 (34 hours before: outside the    *)
(* window), 24 (10 hours before) and 40 (6 hours after).  Deployments      *)
(* arrive as webhook events; the API listing of a backfill run returns the *)
(* repository's issues.                                                    *)
(***************************************************************************)
IncDeploymentTimes == {0, 24, 40}
IncIssueCreatedAt == 34

IncDeploymentEvents ==
    {[repo_id |-> RepoOfDeployment(id), deployment_id |-> id,
      deployment_environment |-> "production", sha |-> "a",
      state |-> "success", created_at |-> t,
      environment |-> KeyAbsent, workflow_run |-> "Deploy"] :
        id \in 1..IncDeployments, t \in IncDeploymentTimes}

IncIssuesEvents ==
    {[action |-> x[1], repo_id |-> RepoOfIssue(id), issue_id |-> id,
      created_at |-> IncIssueCreatedAt, closed_at |-> x[2]] :
        id \in 1..IncIssues,
        x \in {<<"opened", NULL>>,
               <<"closed", IncIssueCreatedAt + HoursToAutoClose>>,
               <<"assigned", NULL>>}}

IncApi ==
    [prs |-> [r \in Repos |-> {}],
     deps |-> [r \in Repos |-> {}],
     issues |-> [r \in Repos |->
        {[issue_id |-> id, created_at |-> IncIssueCreatedAt, closed_at |-> c] :
            id \in {i \in 1..IncIssues : RepoOfIssue(i) = r},
            c \in {NULL, IncIssueCreatedAt + HoursToAutoClose}}]]

NextIncident ==
    \/ DeploymentEvent(IncDeploymentEvents)
    \/ IssuesEvent(IncIssuesEvents)
    \/ fix_data_links
    \/ Backfill(IncApi)

SpecIncident == Init /\ [][NextIncident]_vars

\* the deployment reference an issue's incident row holds (NULL without a row)
RefIn(incs, issue_id) ==
    IF \E j \in incs : j.issue_id = issue_id
    THEN (CHOOSE j \in incs : j.issue_id = issue_id).deployment_id
    ELSE NULL

\* the incident ends linked to a nearest same-repository deployment within
\* the window when one is stored, and unlinked otherwise
NearestOrNull(i, deps) ==
    IF InWindow(deps, i.repo_id, i.created_at) # {}
    THEN \E d \in Closest(deps, i.repo_id, i.created_at) :
            i.deployment_id = d.deployment_id
    ELSE i.deployment_id = NULL

\* the incidents an operation is about: those of the run's repository for a
\* backfill, the event's issue for the webhook, every incident for the script
Concerned(i, op) ==
    \/ op.op = "fix_data_links"
    \/ op.op = "backfill" /\ i.repo_id = op.repo
    \/ op.op = "handle_issues_event" /\ i.issue_id = op.id

\* C3 as stated: whenever an incident-linking operation (fix_data_links
\* step 3, the webhook issue handler, backfill step 6) runs, an incident that
\* had no deployment reference before ends linked to the same-repository
\* deployment nearest in time within 24 hours either side, and keeps no
\* reference when no such deployment is stored.
C3_NearestWithinWindow ==
    [][\A i \in incidents' :
          (Concerned(i, last') /\ RefIn(incidents, i.issue_id) = NULL)
              => NearestOrNull(i, deployments')]_vars

\* C3 for the two operations that conform: fix_data_links step 3 and the
\* webhook issue handler.
C3_NearestWithinWindowScriptAndWebhook ==
    [][\A i \in incidents' :
          (/\ last'.op \in {"fix_data_links", "handle_issues_event"}
           /\ Concerned(i, last')
           /\ RefIn(incidents, i.issue_id) = NULL)
              => NearestOrNull(i, deployments')]_vars

\* C4: a linker pass (fix_data_links step 3, backfill step 6) leaves every
\* incident that already holds a deployment reference with that same
\* reference.
C4_LinkerKeepsReference ==
    [][last'.op \in {"fix_data_links", "backfill"}
          => \A i \in incidents :
                i.deployment_id # NULL
                    => RefIn(incidents', i.issue_id) = i.deployment_id]_vars

\* a linker pass has run while a linked incident has a stored deployment of
\* its repository strictly nearer than the one it references
C4_Witness ==
    /\ last.op \in {"fix_data_links", "backfill"}
    /\ \E i \in incidents, d \in deployments, e \in deployments :
          /\ i.deployment_id = d.deployment_id
          /\ e.repo_id = i.repo_id
          /\ e \in InWindow(deployments, i.repo_id, i.created_at)
          /\ Abs(e.created_at - i.created_at) < Abs(d.created_at - i.created_at)

\* C5 as stated: under any interleaving of operations an incident's
\* deployment reference, once non-null, never changes.
C5_ReferenceNeverChanges ==
    [][\A i \in incidents :
          i.deployment_id # NULL
              => RefIn(incidents', i.issue_id) = i.deployment_id]_vars

(***************************************************************************)
(* src/dora_calculations.py and src/app/dora_calculations.py (identical    *)
(* calculators).  A duration or a rate is an exact fraction <<n, d>> in    *)
(* lowest terms with d > 0 (hours, or percent); total_seconds() / 3600 of  *)
(* whole-hour timestamps is a whole number of hours.                       *)
(***************************************************************************)
RECURSIVE GCD(_, _)
GCD(a, b) == IF b = 0 THEN a ELSE GCD(b, a % b)

Frac(n, d) == LET g == GCD(Abs(n), d) IN <<n \div g, d \div g>>

Zero == Frac(0, 1)
MinLeadTime == Frac(1, 10)

FracLess(x, y) == x[1] * y[2] < y[1] * x[2]
FracMax(x, y) == IF FracLess(x, y) THEN y ELSE x
FracAdd(x, y) == Frac(x[1] * y[2] + y[1] * x[2], x[2] * y[2])
FracDiv(x, n) == Frac(x[1], x[2] * n)
\* (total_seconds() without the division by 3600)
Seconds(t) == Frac(t * 3600, 1)

Hours(t) == Frac(t, 1)

\* (calculate_lead_time without the max(..., 0.1) of its fallback branches)
calculate_lead_time_unfloored(first_commit, merged_at, deploy_time) ==
    Hours(deploy_time - first_commit)

\* (calculate_lead_time with the max(..., 0.1) applied in every branch)
calculate_lead_time_floored(first_commit, merged_at, deploy_time) ==
    FracMax(Hours(deploy_time - first_commit), MinLeadTime)

calculate_lead_time(first_commit, merged_at, deploy_time) ==
    IF merged_at = NULL
    THEN FracMax(Hours(deploy_time - first_commit), MinLeadTime)
    ELSE IF deploy_time < merged_at
    THEN FracMax(Hours(deploy_time - first_commit), MinLeadTime)
    ELSE Hours(deploy_time - first_commit)

\* (calculate_failure_rate without the multiplication by 100)
calculate_failure_ratio(total_deployments, failed_deployments) ==
    IF total_deployments = 0
    THEN Zero
    ELSE Frac(failed_deployments, total_deployments)

calculate_failure_rate(total_deployments, failed_deployments) ==
    IF total_deployments = 0
    THEN Zero
    ELSE Frac(failed_deployments * 100, total_deployments)

\* (calculate_mttr without the closed_at < created_at test)
calculate_mttr_signed(created_at, closed_at) ==
    IF closed_at = NULL THEN Zero ELSE Hours(closed_at - created_at)

calculate_mttr(created_at, closed_at) ==
    IF closed_at = NULL \/ closed_at < created_at
    THEN Zero
    ELSE Hours(closed_at - created_at)

\* sorted(values)
RECURSIVE sorted(_)
sorted(values) ==
    IF values = <<>>
    THEN <<>>
    ELSE LET i == CHOOSE i \in 1..Len(values) :
                    \A j \in 1..Len(values) : ~FracLess(values[j], values[i])
         IN  <<values[i]>> \o
             sorted([k \in 1..(Len(values) - 1) |->
                        IF k < i THEN values[k] ELSE values[k + 1]])

\* (median taking the middle of the list as given, without sorted())
median_unsorted(values) ==
    IF values = <<>>
    THEN Zero
    ELSE LET n == Len(values)
             mid == n \div 2
         IN  IF n % 2 = 0
             THEN FracDiv(FracAdd(values[mid], values[mid + 1]), 2)
             ELSE values[mid + 1]

median(values) ==
    IF values = <<>>
    THEN Zero
    ELSE LET sorted_vals == sorted(values)
             n == Len(sorted_vals)
             mid == n \div 2
         IN  IF n % 2 = 0
             THEN FracDiv(FracAdd(sorted_vals[mid], sorted_vals[mid + 1]), 2)
             ELSE sorted_vals[mid + 1]

RECURSIVE sum(_)
sum(values) ==
    IF values = <<>> THEN Zero ELSE FracAdd(Head(values), sum(Tail(values)))

\* sum(values) / len(values) if values else 0.0
mean(values) ==
    IF values = <<>> THEN Zero ELSE FracDiv(sum(values), Len(values))

\* round(x, 3): the nearest multiple of 1/1000, a tie going to the even one
round3(x) ==
    LET n == x[1] * 1000
        q == n \div x[2]
        r == n % x[2]
    IN  Frac(IF 2 * r < x[2] THEN q
             ELSE IF 2 * r > x[2] THEN q + 1
             ELSE IF q % 2 = 0 THEN q ELSE q + 1, 1000)

(***************************************************************************)
(* Per-day aggregation.  cursor.fetchall() returns the rows of a query in  *)
(* some order; the reducers do not depend on it.  The dora_metrics row     *)
(* carries the key and the four measures (last_updated is not modelled).   *)
(***************************************************************************)
RECURSIVE fetchall(_)
fetchall(rows) ==
    IF rows = {}
    THEN <<>>
    ELSE LET row == CHOOSE row \in rows : TRUE
         IN  <<row>> \o fetchall(rows \ {row})

\* created_at BETWEEN %s AND %s
Between(t, start_time, end_time) == start_time <= t /\ t <= end_time

\* DATE(closed_at)
Date(t) == t \div HoursPerDay

\* (INSERT INTO dora_metrics without its ON CONFLICT clause and without the
\* unique constraint)
InsertMetric(tbl, row) == tbl \cup {row}

\* (INSERT INTO dora_metrics ... ON CONFLICT (repo_id, metric_date) DO NOTHING)
InsertMetricIfAbsent(tbl, row) ==
    IF \E m \in tbl : m.repo_id = row.repo_id /\ m.metric_date = row.metric_date
    THEN tbl
    ELSE tbl \cup {row}

\* (an upsert that replaces only the two time measures of a stored row)
UpsertMetricTimesOnly(tbl, row) ==
    IF \E m \in tbl : m.repo_id = row.repo_id /\ m.metric_date = row.metric_date
    THEN {IF m.repo_id = row.repo_id /\ m.metric_date = row.metric_date
          THEN [m EXCEPT !.lead_time_hours = row.lead_time_hours,
                         !.mttr_hours = row.mttr_hours]
          ELSE m : m \in tbl}
    ELSE tbl \cup {row}

\* INSERT INTO dora_metrics ... ON CONFLICT (repo_id, metric_date) DO UPDATE SET
\* the four measures
UpsertMetric(tbl, row) ==
    IF \E m \in tbl : m.repo_id = row.repo_id /\ m.metric_date = row.metric_date
    THEN {IF m.repo_id = row.repo_id /\ m.metric_date = row.metric_date
          THEN [m EXCEPT !.deployment_frequency = row.deployment_frequency,
                         !.lead_time_hours = row.lead_time_hours,
                         !.change_failure_rate = row.change_failure_rate,
                         !.mttr_hours = row.mttr_hours]
          ELSE m : m \in tbl}
    ELSE tbl \cup {row}

\* ---- src/app/metrics_processor.py process_repo_metrics ----
\* SELECT ... FROM deployments d WHERE repo, BETWEEN, status = 'success'
app_all_deployments(repo_id, start_time, end_time) ==
    {d \in deployments : /\ d.repo_id = repo_id
                         /\ Between(d.created_at, start_time, end_time)
                         /\ d.status = "success"}

app_prod_deployments(repo_id, start_time, end_time) ==
    {d \in app_all_deployments(repo_id, start_time, end_time) :
        is_production_deployment(d.environment, d.payload)}

\* SELECT pr.first_commit_at FROM deployment_prs dp JOIN pull_requests pr
\* ON dp.pr_id = pr.pr_id WHERE dp.deployment_id = %s, for each production
\* deployment: one row per link row
app_linked_rows(repo_id, start_time, end_time) ==
    {x \in app_prod_deployments(repo_id, start_time, end_time) \X pull_requests :
        <<x[1].deployment_id, x[2].pr_id>> \in LinkSet}

\* the direct commits: LEFT JOIN deployment_prs ... dp.pr_id IS NULL AND
\* d.deployment_id IN prod_deployment_ids (or (0,) when there is none)
app_direct_rows(repo_id, start_time, end_time) ==
    LET ids == {d.deployment_id :
                    d \in app_prod_deployments(repo_id, start_time, end_time)}
        prod_deployment_ids == IF ids = {} THEN {0} ELSE ids
    IN  {d \in deployments :
            /\ d.repo_id = repo_id
            /\ Between(d.created_at, start_time, end_time)
            /\ d.status = "success"
            /\ ~\E k \in LinkSet : k[1] = d.deployment_id
            /\ d.deployment_id \in prod_deployment_ids}

app_lead_times(repo_id, start_time, end_time) ==
    LET linked == fetchall(app_linked_rows(repo_id, start_time, end_time))
        direct == fetchall(app_direct_rows(repo_id, start_time, end_time))
    IN  [k \in 1..Len(linked) |->
            calculate_lead_time(linked[k][2].first_commit_at, NULL,
                                linked[k][1].created_at)]
        \o
        [k \in 1..Len(direct) |->
            calculate_lead_time(direct[k].created_at, NULL, direct[k].created_at)]

\* SELECT COUNT(DISTINCT i.deployment_id) FROM incidents i WHERE i.repo_id = %s
\* AND i.deployment_id IN (SELECT ... created_at BETWEEN %s AND %s)
app_failed_deployments(repo_id, start_time, end_time) ==
    Cardinality({i.deployment_id : i \in
        {j \in incidents :
            /\ j.repo_id = repo_id
            /\ \E d \in deployments :
                  /\ d.deployment_id = j.deployment_id
                  /\ d.repo_id = repo_id
                  /\ Between(d.created_at, start_time, end_time)}})

\* SELECT created_at, closed_at FROM incidents WHERE repo_id = %s AND
\* closed_at IS NOT NULL AND DATE(closed_at) = %s
app_mttr_times(repo_id, metric_date) ==
    LET rows == fetchall({i \in incidents : /\ i.repo_id = repo_id
                                            /\ i.closed_at # NULL
                                            /\ Date(i.closed_at) = metric_date})
    IN  [k \in 1..Len(rows) |-> calculate_mttr(rows[k].created_at, rows[k].closed_at)]

app_process_repo_metrics(metrics, repo_id, start_time, end_time, metric_date) ==
    LET deployment_count ==
            Cardinality(app_prod_deployments(repo_id, start_time, end_time))
        mean_lead_time == mean(app_lead_times(repo_id, start_time, end_time))
        failure_rate ==
            calculate_failure_rate(deployment_count,
                app_failed_deployments(repo_id, start_time, end_time))
        mean_mttr == mean(app_mttr_times(repo_id, metric_date))
    IN  UpsertMetric(metrics,
            [repo_id |-> repo_id,
             metric_date |-> metric_date,
             deployment_frequency |-> deployment_count,
             lead_time_hours |-> round3(mean_lead_time),
             change_failure_rate |-> round3(failure_rate),
             mttr_hours |-> round3(mean_mttr)])

\* ---- src/metrics_processor.py process_repo_metrics ----
\* SELECT the COUNT of the deployments WHERE repo, BETWEEN, status = 'success'
counted_deployments(repo_id, start_time, end_time) ==
    {d \in deployments : /\ d.repo_id = repo_id
                         /\ Between(d.created_at, start_time, end_time)
                         /\ d.status = "success"}

\* FROM deployments d JOIN deployment_prs dp ... JOIN pull_requests pr ...
linked_rows(repo_id, start_time, end_time) ==
    {x \in counted_deployments(repo_id, start_time, end_time) \X pull_requests :
        <<x[1].deployment_id, x[2].pr_id>> \in LinkSet}

\* FROM deployments d LEFT JOIN deployment_prs dp ... WHERE dp.pr_id IS NULL
direct_rows(repo_id, start_time, end_time) ==
    {d \in counted_deployments(repo_id, start_time, end_time) :
        ~\E k \in LinkSet : k[1] = d.deployment_id}

lead_times(repo_id, start_time, end_time) ==
    LET linked == fetchall(linked_rows(repo_id, start_time, end_time))
        direct == fetchall(direct_rows(repo_id, start_time, end_time))
    IN  [k \in 1..Len(linked) |->
            calculate_lead_time(linked[k][2].first_commit_at, NULL,
                                linked[k][1].created_at)]
        \o
        [k \in 1..Len(direct) |->
            calculate_lead_time(direct[k].created_at, NULL, direct[k].created_at)]

\* SELECT the COUNT of incidents i JOIN deployments d ON i.deployment_id =
\* d.deployment_id WHERE i.repo_id = %s AND i.is_incident AND d.created_at
\* BETWEEN %s AND %s
failed_deployments(repo_id, start_time, end_time) ==
    Cardinality({i \in incidents :
        /\ i.repo_id = repo_id
        /\ i.is_incident
        /\ \E d \in deployments :
              /\ d.deployment_id = i.deployment_id
              /\ Between(d.created_at, start_time, end_time)})

\* SELECT created_at, closed_at FROM incidents WHERE repo_id = %s AND
\* is_incident AND closed_at IS NOT NULL AND closed_at BETWEEN %s AND %s
mttr_times(repo_id, start_time, end_time) ==
    LET rows == fetchall({i \in incidents :
                            /\ i.repo_id = repo_id
                            /\ i.is_incident
                            /\ i.closed_at # NULL
                            /\ Between(i.closed_at, start_time, end_time)})
    IN  [k \in 1..Len(rows) |-> calculate_mttr(rows[k].created_at, rows[k].closed_at)]

process_repo_metrics(metrics, repo_id, start_time, end_time, metric_date) ==
    LET deployment_count ==
            Cardinality(counted_deployments(repo_id, start_time, end_time))
    IN  UpsertMetric(metrics,
            [repo_id |-> repo_id,
             metric_date |-> metric_date,
             deployment_frequency |-> deployment_count,
             lead_time_hours |-> median(lead_times(repo_id, start_time, end_time)),
             change_failure_rate |->
                calculate_failure_rate(deployment_count,
                    failed_deployments(repo_id, start_time, end_time)),
             mttr_hours |-> median(mttr_times(repo_id, start_time, end_time))])

\* SELECT DISTINCT repo_id FROM (deployments UNION pull_requests UNION incidents)
ActiveRepos ==
    {d.repo_id : d \in deployments} \cup {p.repo_id : p \in pull_requests}
        \cup {i.repo_id : i \in incidents}

\* SELECT MIN(min_date) over the created_at of the three tables (NULL when all
\* three are empty)
EarliestCreatedAt ==
    LET ts == {d.created_at : d \in deployments}
                \cup {p.created_at : p \in pull_requests}
                \cup {i.created_at : i \in incidents}
    IN  IF ts = {} THEN NULL ELSE CHOOSE t \in ts : \A u \in ts : t <= u

\* a pass changed the measures of a row that was already stored
Overwrites(old, new) ==
    \E m \in old, n \in new :
        m.repo_id = n.repo_id /\ m.metric_date = n.metric_date /\ m # n

\* ---- src/app/metrics_processor.py process_metrics(start_date) ----
RECURSIVE app_for_repos(_, _, _)
app_for_repos(metrics, repos, single_date) ==
    IF repos = <<>>
    THEN metrics
    ELSE LET start_time == single_date * HoursPerDay
             end_time == start_time + HoursPerDay
         IN  app_for_repos(
                app_process_repo_metrics(metrics, Head(repos), start_time,
                                         end_time, single_date),
                Tail(repos), single_date)

\* for single_date in daterange(start_date, today)
RECURSIVE app_for_dates(_, _, _, _)
app_for_dates(metrics, repos, single_date, end_date) ==
    IF single_date > end_date
    THEN metrics
    ELSE app_for_dates(app_for_repos(metrics, repos, single_date), repos,
                       single_date + 1, end_date)

\* (start_date taken as given, without max(start_date, default_start))
app_start_date_unclamped(start_date) ==
    LET default_start == IF EarliestCreatedAt = NULL
                         THEN today
                         ELSE Date(EarliestCreatedAt)
    IN  IF start_date = NULL THEN default_start ELSE start_date

app_start_date(start_date) ==
    LET default_start == IF EarliestCreatedAt = NULL
                         THEN today
                         ELSE Date(EarliestCreatedAt)
    IN  IF start_date = NULL
        THEN default_start
        ELSE IF start_date > default_start THEN start_date ELSE default_start

app_process_metrics(start_date) ==
    LET first == app_start_date(start_date)
        new == app_for_dates(dora_metrics, fetchall(ActiveRepos), first, today)
    IN  /\ dora_metrics' = new
        /\ last' = [op |-> "app_process_metrics", repo |-> 0,
                    again |-> last.op = "app_process_metrics" /\ last.id = first,
                    id |-> first, over |-> Overwrites(dora_metrics, new)]
        /\ UNCHANGED <<tables, today, txns>>

\* ---- src/metrics_processor.py process_metrics(): the previous day ----
RECURSIVE for_repos(_, _, _, _, _)
for_repos(metrics, repos, start_time, end_time, metric_date) ==
    IF repos = <<>>
    THEN metrics
    ELSE for_repos(
            process_repo_metrics(metrics, Head(repos), start_time, end_time,
                                 metric_date),
            Tail(repos), start_time, end_time, metric_date)

process_metrics ==
    LET end_time == today * HoursPerDay
        start_time == end_time - HoursPerDay
        metric_date == Date(start_time)
        new == for_repos(dora_metrics, fetchall(ActiveRepos), start_time,
                         end_time, metric_date)
    IN  /\ dora_metrics' = new
        /\ last' = [op |-> "process_metrics", repo |-> 0,
                    again |-> last.op = "process_metrics",
                    id |-> metric_date, over |-> Overwrites(dora_metrics, new)]
        /\ UNCHANGED <<tables, today, txns>>

(***************************************************************************)
(* SpecAgg: bulk imports of deployments and pull requests, and the two     *)
(* aggregators running during day 1.  Odd deployments are labelled         *)
(* production and deploy commit "a", even ones are labelled staging and    *)
(* deploy commit "b"; a deployment is created at hour 10 of day 0 or at    *)
(* hour 24 (the midnight between day 0 and day 1); the pull request merges *)
(* commit "a" and its first commit is at hour 4 or hour 30.                *)
(***************************************************************************)
AggDeploymentTimes == {10, 24}
AggFirstCommitTimes == {4, 30}
AggPrCreatedAt == 4
AggPullRequestIds == {1}
AggToday == 1

AggEnvironment(id) == IF id % 2 = 1 THEN "production" ELSE "staging"
AggSha(id) == IF id % 2 = 1 THEN "a" ELSE "b"

AggApi ==
    [prs |-> [r \in Repos |->
        {[pr_id |-> id, merge_commit_sha |-> "a", created_at |-> AggPrCreatedAt,
          merged_at |-> AggPrCreatedAt, first_commit_at |-> f] :
            id \in {i \in AggPullRequestIds : RepoOfPr(i) = r},
            f \in AggFirstCommitTimes}],
     deps |-> [r \in Repos |->
        {[deployment_id |-> id, environment |-> AggEnvironment(id),
          sha |-> AggSha(id),
          created_at |-> t] :
            id \in {i \in 1..AggDeployments : RepoOfDeployment(i) = r},
            t \in AggDeploymentTimes}],
     issues |-> [r \in Repos |-> {}]]

AppProcessMetrics == \E start_date \in {NULL} \cup 0..AggToday :
                        app_process_metrics(start_date)

InitAgg ==
    /\ deployments = {}
    /\ pull_requests = {}
    /\ incidents = {}
    /\ deployment_prs = EmptyLinks
    /\ dora_metrics = {}
    /\ today = AggToday
    /\ txns = NoTxns
    /\ last = [op |-> "init", repo |-> 0, again |-> FALSE, id |-> 0,
               over |-> FALSE]

NextAgg ==
    \/ Backfill(AggApi)
    \/ AppProcessMetrics
    \/ process_metrics

SpecAgg == InitAgg /\ [][NextAgg]_vars

\* the (repository, metric_date) pairs the last aggregation run processed
ProcessedKeys ==
    IF last.op = "app_process_metrics"
    THEN {<<r, day>> : r \in ActiveRepos, day \in last.id..today}
    ELSE IF last.op = "process_metrics"
    THEN {<<r, last.id>> : r \in ActiveRepos}
    ELSE {}

RowsOf(metrics, key) ==
    {m \in metrics : m.repo_id = key[1] /\ m.metric_date = key[2]}

StartOf(key) == key[2] * HoursPerDay
EndOf(key) == key[2] * HoursPerDay + HoursPerDay

\* C6: dora_metrics holds at most one row per (repository, metric_date) in
\* every reachable state; an aggregation run leaves exactly one row for every
\* pair it processes, adding a row only for the pairs that had none (a pair
\* that had a row keeps a single, overwritten row).
C6_OneRowPerRepoAndDate ==
    /\ [](\A m, n \in dora_metrics :
            (m.repo_id = n.repo_id /\ m.metric_date = n.metric_date) => m = n)
    /\ [][/\ \A key \in ProcessedKeys' :
                Cardinality(RowsOf(dora_metrics', key)) = 1
          /\ Cardinality(dora_metrics') = Cardinality(dora_metrics) +
                Cardinality({key \in ProcessedKeys' :
                                RowsOf(dora_metrics, key) = {}})]_vars

\* an aggregation run has overwritten the measures of a stored row while
\* other rows are stored too
C6_Witness ==
    /\ last.op \in {"app_process_metrics", "process_metrics"}
    /\ last.over
    /\ Cardinality(dora_metrics) >= 2

\* what each aggregator writes into an empty dora_metrics table
app_fresh(first) == app_for_dates({}, fetchall(ActiveRepos), first, today)
fresh(metric_date) ==
    for_repos({}, fetchall(ActiveRepos), metric_date * HoursPerDay,
              metric_date * HoursPerDay + HoursPerDay, metric_date)

\* C7: the row an aggregation run leaves for each pair it processes is the
\* row a first-time computation over the stored deployments, pull requests,
\* incidents and links gives, whatever row was stored before; running the
\* same aggregation again over unchanged data changes nothing.
C7_RecomputedFromStoredState ==
    /\ [](\A key \in ProcessedKeys :
            RowsOf(dora_metrics, key) =
                RowsOf(IF last.op = "app_process_metrics"
                       THEN app_fresh(last.id) ELSE fresh(last.id), key))
    /\ [][(last'.op \in {"app_process_metrics", "process_metrics"} /\ last'.again)
              => dora_metrics' = dora_metrics]_vars

\* an aggregation run has been repeated over unchanged data that holds a
\* counted deployment with a non-zero lead time
C7_Witness ==
    /\ last.op \in {"app_process_metrics", "process_metrics"}
    /\ last.again
    /\ \E key \in ProcessedKeys : \E m \in RowsOf(dora_metrics, key) :
          m.deployment_frequency > 0 /\ m.lead_time_hours # Zero

\* the production classification applied to a stored deployment row: its
\* environment label and the workflow name of its payload
Production(d) ==
    detect_production_deployment([environment |-> d.environment,
                                  workflow_run |-> d.payload.workflow_run])

ProductionInWindow(key) ==
    {d \in deployments : /\ d.repo_id = key[1]
                         /\ d.status = "success"
                         /\ Between(d.created_at, StartOf(key), EndOf(key))
                         /\ Production(d)}

\* C8 as stated: the deployment_frequency an aggregation run persists for
\* (repo, date) is the number of the repository's deployments with status
\* success, created_at in the day window (both midnights admitted here) and
\* accepted by the production classification.
C8_FrequencyCountsProduction ==
    \A key \in ProcessedKeys : \A m \in RowsOf(dora_metrics, key) :
        m.deployment_frequency = Cardinality(ProductionInWindow(key))

\* C8 for the aggregator of src/app/metrics_processor.py alone.
C8_AppFrequencyCountsProduction ==
    last.op = "app_process_metrics" => C8_FrequencyCountsProduction

RECURSIVE SumFrequency(_, _, _, _)
SumFrequency(metrics, repo_id, first, last_day) ==
    IF first > last_day
    THEN 0
    ELSE (IF RowsOf(metrics, <<repo_id, first>>) = {}
          THEN 0
          ELSE (CHOOSE m \in RowsOf(metrics, <<repo_id, first>>) : TRUE)
                    .deployment_frequency)
         + SumFrequency(metrics, repo_id, first + 1, last_day)

\* C9 as stated: the day window is half-open, so the deployment_frequency of
\* (repo, date) counts no deployment created at the next midnight, and the
\* frequencies a batch run writes for consecutive days count every
\* deployment of the repository at most once.
C9_HalfOpenWindow ==
    /\ \A key \in ProcessedKeys : \A m \in RowsOf(dora_metrics, key) :
          m.deployment_frequency <=
              Cardinality({d \in deployments :
                              /\ d.repo_id = key[1]
                              /\ StartOf(key) <= d.created_at
                              /\ d.created_at < EndOf(key)})
    /\ last.op = "app_process_metrics" =>
          \A r \in ActiveRepos :
              SumFrequency(dora_metrics, r, last.id, today) <=
                  Cardinality({d \in deployments : d.repo_id = r})

\* the deployments an aggregator counts in deployment_frequency, and the
\* lead-time samples it collects
CountedBy(op, key) ==
    IF op = "app_process_metrics"
    THEN app_prod_deployments(key[1], StartOf(key), EndOf(key))
    ELSE counted_deployments(key[1], StartOf(key), EndOf(key))

SamplesOf(op, key) ==
    IF op = "app_process_metrics"
    THEN app_lead_times(key[1], StartOf(key), EndOf(key))
    ELSE lead_times(key[1], StartOf(key), EndOf(key))

LinkedPrs(d) ==
    {p \in pull_requests : <<d.deployment_id, p.pr_id>> \in LinkSet}

\* max(deployment.created_at - pr.first_commit_at in hours, 0.1)
ExpectedSample(d, p) ==
    IF d.created_at - p.first_commit_at >= 1
    THEN <<d.created_at - p.first_commit_at, 1>>
    ELSE <<1, 10>>

\* how many samples of value v the counted deployments should contribute
ExpectedOccurrences(counted, v) ==
    Cardinality({x \in counted \X pull_requests :
                    x[2] \in LinkedPrs(x[1]) /\ ExpectedSample(x[1], x[2]) = v})
    + (IF v = <<1, 10>>
       THEN Cardinality({d \in counted : LinkedPrs(d) = {}})
       ELSE 0)

Occurrences(values, v) == Cardinality({k \in 1..Len(values) : values[k] = v})

\* C10: for every (repo, date) an aggregation run processes, the lead-time
\* samples are exactly, for each deployment counted in deployment_frequency,
\* one sample max(created_at - first_commit_at, 0.1) per linked pull request,
\* or one sample of 0.1 hours when it has no linked pull request; every
\* in-window successful production deployment is among the counted ones.
C10_LeadTimeSamples ==
    \A key \in ProcessedKeys :
        LET counted == CountedBy(last.op, key)
            samples == SamplesOf(last.op, key)
            values == {samples[k] : k \in 1..Len(samples)} \cup {<<1, 10>>}
                        \cup {ExpectedSample(x[1], x[2]) :
                                x \in counted \X pull_requests}
        IN  /\ ProductionInWindow(key) \subseteq counted
            /\ \A m \in RowsOf(dora_metrics, key) :
                  m.deployment_frequency = Cardinality(counted)
            /\ \A v \in values :
                  Occurrences(samples, v) = ExpectedOccurrences(counted, v)

\* an aggregation run has processed a day that holds a counted deployment
\* deployed before the first commit of its linked pull request, and a counted
\* deployment without any linked pull request
C10_Witness ==
    \E key \in ProcessedKeys :
        /\ \E d \in CountedBy(last.op, key) : \E p \in LinkedPrs(d) :
              d.created_at < p.first_commit_at
        /\ \E key2 \in ProcessedKeys :
              \E d \in CountedBy(last.op, key2) :
                  LinkedPrs(d) = {}

(***************************************************************************)
(* src/github_backfill.py backfill(): one transaction, nothing is linked.  *)
(* prs are the merged pull requests listed, deps the (deployment, success  *)
(* status) pairs in the order the API lists them, issues the issues that   *)
(* are not pull requests.                                                  *)
(***************************************************************************)
\* INSERT INTO pull_requests ... ON CONFLICT (pr_id) DO UPDATE SET merged_at,
\* commit_sha, pr_name, payload
RootUpsertPullRequest(tbl, row) ==
    IF \E p \in tbl : p.pr_id = row.pr_id
    THEN {IF p.pr_id = row.pr_id
          THEN [p EXCEPT !.merged_at = row.merged_at,
                         !.commit_sha = row.commit_sha]
          ELSE p : p \in tbl}
    ELSE tbl \cup {row}

RECURSIVE RootUpsertPullRequests(_, _)
RootUpsertPullRequests(tbl, rows) ==
    IF rows = {} THEN tbl
    ELSE LET r == CHOOSE x \in rows : TRUE
         IN  RootUpsertPullRequests(RootUpsertPullRequest(tbl, r), rows \ {r})

\* insert_pull_request: first_commit_at is created_at
RootPullRequestRow(repo_id, pr) ==
    [repo_id |-> repo_id,
     pr_id |-> pr.pr_id,
     merged_at |-> pr.merged_at,
     created_at |-> pr.created_at,
     first_commit_at |-> pr.created_at,
     commit_sha |-> pr.merge_commit_sha]

\* insert_deployment, once per success status, in listing order
RECURSIVE InsertDeployments(_, _)
InsertDeployments(tbl, rows) ==
    IF rows = <<>> THEN tbl
    ELSE InsertDeployments(UpsertDeployment(tbl, Head(rows)), Tail(rows))

IncidentLabels == {<<"i","n","c","i","d","e","n","t">>,
                   <<"o","u","t","a","g","e">>,
                   <<"f","a","i","l","u","r","e">>,
                   <<"s","e","v">>}

\* insert_incident: labels = [l['name'].lower() ...];
\* is_incident = any(lbl in labels for lbl in ['incident', 'outage', 'failure', 'sev'])
root_is_incident(labels) ==
    \E lbl \in IncidentLabels : lbl \in {Lower(Chars[l]) : l \in labels}

RootIncidentRow(repo_id, issue) ==
    [repo_id |-> repo_id,
     issue_id |-> issue.issue_id,
     created_at |-> issue.created_at,
     closed_at |-> issue.closed_at,
     is_incident |-> root_is_incident(issue.labels),
     deployment_id |-> NULL]

root_backfill(repo_id, prs, deps, issues) ==
    /\ pull_requests' = RootUpsertPullRequests(pull_requests,
                            {RootPullRequestRow(repo_id, pr) : pr \in prs})
    /\ deployments' = InsertDeployments(deployments,
                            [k \in 1..Len(deps) |->
                                BackfillDeploymentRow(repo_id, deps[k])])
    /\ incidents' = UpsertIncidents(incidents,
                            {RootIncidentRow(repo_id, i) : i \in issues})
    /\ last' = [op |-> "root_backfill", repo |-> repo_id, again |-> FALSE,
                id |-> 0, over |-> FALSE]
    /\ UNCHANGED <<deployment_prs, dora_metrics, today, txns>>

\* api: what the remote API lists per repository (prs, deps as sequences of
\* success statuses, issues)
RootBackfill(api) ==
    \E repo_id \in Repos :
        \E prs \in DistinctPullRequests(api.prs[repo_id]),
           deps \in api.deps[repo_id],
           issues \in DistinctIssues(api.issues[repo_id]) :
            /\ \A p \in prs : SamePullRequest(p.pr_id, p.created_at)
            /\ \A i \in issues : SameIssue(i.issue_id, i.created_at)
            /\ root_backfill(repo_id, prs, deps, issues)

(***************************************************************************)
(* SpecAggInc: deployments and issues of repository 1 and the two          *)
(* aggregators running during day 1.  Deployment 1 is labelled production  *)
(* and deployment 2 staging, both created at hour 10 of day 0; both issues *)
(* are opened at hour 11.  Issue 1 is labelled Incident and is open,       *)
(* closed at hour 14, or closed at hour 24 (the midnight that ends day 0); *)
(* issue 2 is labelled bug and closed at hour 14.  The importer of src/app *)
(* stores every issue as an incident and links it; the importer of src/    *)
(* reads the labels and links nothing.                                     *)
(***************************************************************************)
AggIncDeployments == 2
AggIncDeploymentAt == 10
AggIncCreatedAt == 11
AggIncClosedAt(id) == IF id = 1 THEN {NULL, 14, 24} ELSE {14}
AggIncLabels(id) == IF id = 1 THEN {"Incident"} ELSE {"bug"}
AggIncIssueIds == {1, 2}

AggIncIssues ==
    {[issue_id |-> id, created_at |-> AggIncCreatedAt, closed_at |-> c,
      labels |-> AggIncLabels(id)] :
        id \in AggIncIssueIds, c \in {NULL, 14, 24}}

AggIncApi ==
    [prs |-> [r \in Repos |-> {}],
     deps |-> [r \in Repos |->
        {[deployment_id |-> id, environment |-> AggEnvironment(id),
          sha |-> AggSha(id), created_at |-> AggIncDeploymentAt] :
            id \in {i \in 1..AggIncDeployments : RepoOfDeployment(i) = r}}],
     issues |-> [r \in Repos |->
        IF r = 1
        THEN {i \in AggIncIssues : i.closed_at \in AggIncClosedAt(i.issue_id)}
        ELSE {}]]

AggIncRootApi ==
    [prs |-> AggIncApi.prs,
     deps |-> [r \in Repos |-> {<<>>}],
     issues |-> AggIncApi.issues]

\* the scheduled job before any webhook arrived: process_metrics(start_date=None)
AggIncProcessMetrics == app_process_metrics(NULL)

NextAggInc ==
    \/ Backfill(AggIncApi)
    \/ RootBackfill(AggIncRootApi)
    \/ AggIncProcessMetrics
    \/ process_metrics

SpecAggInc == InitAgg /\ [][NextAggInc]_vars

\* the failed-deployment count the aggregator `op` computes for `key`
FailedBy(op, key) ==
    IF op = "app_process_metrics"
    THEN app_failed_deployments(key[1], StartOf(key), EndOf(key))
    ELSE failed_deployments(key[1], StartOf(key), EndOf(key))

\* the deployments of the repository in the day window that have at least one
\* linked incident with is_incident = true
FailedInWindow(key) ==
    {d \in deployments :
        /\ d.repo_id = key[1]
        /\ Between(d.created_at, StartOf(key), EndOf(key))
        /\ \E i \in incidents : i.deployment_id = d.deployment_id /\ i.is_incident}

\* C11 as stated: for every (repo, date) an aggregation run processes, the
\* failed-deployment count it divides by deployment_frequency is the number of
\* distinct deployments of the repository in the window that have at least one
\* linked incident with is_incident = true, and the persisted
\* change_failure_rate is that count over the persisted deployment_frequency.
C11_FailedCountsDistinctDeployments ==
    \A key \in ProcessedKeys :
        /\ FailedBy(last.op, key) = Cardinality(FailedInWindow(key))
        /\ \A m \in RowsOf(dora_metrics, key) :
              m.change_failure_rate =
                  calculate_failure_rate(m.deployment_frequency,
                                         Cardinality(FailedInWindow(key)))

\* C12 as stated: every change_failure_rate stored in dora_metrics is a
\* percentage between 0 and 100 inclusive, and it is 0.0 in every row whose
\* deployment_frequency is 0.
C12_FailureRateIsPercentage ==
    \A m \in dora_metrics :
        /\ ~FracLess(m.change_failure_rate, Zero)
        /\ ~FracLess(Frac(100, 1), m.change_failure_rate)
        /\ m.deployment_frequency = 0 => m.change_failure_rate = Zero

\* the restore-time samples the aggregator `op` reduces for `key`
RestoreSamplesOf(op, key) ==
    IF op = "app_process_metrics"
    THEN app_mttr_times(key[1], key[2])
    ELSE mttr_times(key[1], StartOf(key), EndOf(key))

\* the incidents of the repository with is_incident = true, a non-null
\* closed_at, and closed_at falling on the metric date
RestoredOn(key) ==
    {i \in incidents : /\ i.repo_id = key[1]
                       /\ i.is_incident
                       /\ i.closed_at # NULL
                       /\ Date(i.closed_at) = key[2]}

\* C13 as stated: for every (repo, date) an aggregation run processes, the
\* restore-time samples are one calculate_mttr(created_at, closed_at) per
\* incident of the repository with is_incident = true, closed_at non-null and
\* closed_at on the metric date, and no sample comes from any other incident.
C13_RestoreSamples ==
    \A key \in ProcessedKeys :
        \A v \in {calculate_mttr(i.created_at, i.closed_at) : i \in incidents}
                \cup {RestoreSamplesOf(last.op, key)[k] :
                        k \in 1..Len(RestoreSamplesOf(last.op, key))} :
            Occurrences(RestoreSamplesOf(last.op, key), v) =
                Cardinality({i \in RestoredOn(key) :
                                calculate_mttr(i.created_at, i.closed_at) = v})

\* the incidents of the repository that have a deployment reference
Referenced(repo_id) ==
    {i \in incidents : i.repo_id = repo_id /\ i.deployment_id # NULL}

\* C14 as stated: for every (repo, date) an aggregation run processes, an
\* incident whose deployment reference is null contributes nothing: the failed
\* count is at most the number of incidents that have a reference, every
\* restore-time sample is the restore time of an incident that has a
\* reference, and when no incident of the repository has a reference the
\* persisted change_failure_rate and mttr_hours are both 0.0.
C14_UnlinkedIncidentsExcluded ==
    \A key \in ProcessedKeys :
        /\ FailedBy(last.op, key) <= Cardinality(Referenced(key[1]))
        /\ \A k \in 1..Len(RestoreSamplesOf(last.op, key)) :
              LET v == RestoreSamplesOf(last.op, key)[k]
              IN  Occurrences(RestoreSamplesOf(last.op, key), v) <=
                      Cardinality({i \in Referenced(key[1]) :
                          /\ i.closed_at # NULL
                          /\ calculate_mttr(i.created_at, i.closed_at) = v})
        /\ Referenced(key[1]) = {} =>
              \A m \in RowsOf(dora_metrics, key) :
                  m.change_failure_rate = Zero /\ m.mttr_hours = Zero

\* the (repo_id, single_date) units in the order the two nested loops of
\* src/app/metrics_processor.py process_metrics call process_repo_metrics:
\* for single_date in daterange(start_date, today): for repo_id in repos
app_units(repos, start_date, end_date) ==
    LET days == IF end_date < start_date THEN 0 ELSE end_date - start_date + 1
    IN  [k \in 1..(days * Len(repos)) |->
            <<repos[((k - 1) % Len(repos)) + 1],
              start_date + ((k - 1) \div Len(repos))>>]

\* the later of the caller's lower bound and the date of the earliest stored
\* created_at
LaterOf(start_date) ==
    IF start_date # NULL /\ start_date > Date(EarliestCreatedAt)
    THEN start_date
    ELSE Date(EarliestCreatedAt)

\* C15: a completed batch run process_metrics(start_date) makes finitely many
\* calls of the per-day aggregation, exactly one for every (repo, date) with
\* repo a repository that has a stored deployment, pull request or incident
\* and date a day from the start date through today; the start date is the
\* date of the earliest stored created_at, or the caller's lower bound when
\* that is later, never an earlier date; afterwards every such pair has one
\* row, the one the per-day aggregation computes, and no other row changed.
C15_BatchRunsEveryUnitOnce ==
    [][\A start_date \in {NULL} \cup 0..AggToday :
        (/\ last'.op = "app_process_metrics"
         /\ last'.id = app_start_date(start_date)
         /\ tables' = tables) =>
            LET first == app_start_date(start_date)
                units == app_units(fetchall(ActiveRepos), first, today)
                keys == {<<r, day>> : r \in ActiveRepos,
                                      day \in LaterOf(start_date)..today}
            IN  /\ EarliestCreatedAt # NULL =>
                      first = LaterOf(start_date) /\ first >= Date(EarliestCreatedAt)
                /\ Len(units) = Cardinality(keys)
                /\ \A j, k \in 1..Len(units) : units[j] = units[k] => j = k
                /\ {units[k] : k \in 1..Len(units)} = keys
                /\ \A key \in keys :
                      RowsOf(dora_metrics', key) =
                          app_process_repo_metrics({}, key[1], StartOf(key),
                                                   EndOf(key), key[2])
                /\ \A m \in dora_metrics' :
                      <<m.repo_id, m.metric_date>> \notin keys => m \in dora_metrics
      ]_vars

\* C15 is exercised: a batch run completed from a caller's lower bound (day 1) later than the earliest stored event (day 0),
\* leaving day 0 without a row.
C15_Witness ==
    /\ last.op = "app_process_metrics"
    /\ ActiveRepos # {}
    /\ EarliestCreatedAt # NULL
    /\ last.id > Date(EarliestCreatedAt)
    /\ \A r \in ActiveRepos : RowsOf(dora_metrics, <<r, last.id>>) # {}
    /\ \A m \in dora_metrics : m.metric_date >= last.id

(***************************************************************************)
(* A query of process_repo_metrics raising inside a run.  Both             *)
(* process_metrics functions catch the exception, log it and return {}     *)
(* without reaching conn.commit(); the finally clause closes the           *)
(* connection, which discards everything the transaction wrote.            *)
(***************************************************************************)
\* what the transaction of src/app/metrics_processor.py has written when it
\* reaches unit n + 1: the upserts of units 1..n
RECURSIVE app_uncommitted(_, _, _)
app_uncommitted(metrics, units, n) ==
    IF n = 0
    THEN metrics
    ELSE app_process_repo_metrics(app_uncommitted(metrics, units, n - 1),
                                  units[n][1], units[n][2] * HoursPerDay,
                                  units[n][2] * HoursPerDay + HoursPerDay,
                                  units[n][2])

\* the same for src/metrics_processor.py: the upserts of repos[1..n]
RECURSIVE uncommitted(_, _, _, _, _, _)
uncommitted(metrics, repos, n, start_time, end_time, metric_date) ==
    IF n = 0
    THEN metrics
    ELSE process_repo_metrics(
            uncommitted(metrics, repos, n - 1, start_time, end_time, metric_date),
            repos[n], start_time, end_time, metric_date)

\* conn.close() without conn.commit(): the table keeps its committed content
rollback(committed, written) == committed

\* (every unit commits its own upsert, and the unit that fails has already
\* stored a row holding the measures computed before the failing query)
app_process_metrics_commits_partial(start_date, k) ==
    LET first == app_start_date(start_date)
        units == app_units(fetchall(ActiveRepos), first, today)
    IN  /\ k \in 1..Len(units)
        /\ dora_metrics' =
              UpsertMetric(app_uncommitted(dora_metrics, units, k - 1),
                  [repo_id |-> units[k][1],
                   metric_date |-> units[k][2],
                   deployment_frequency |->
                      Cardinality(app_prod_deployments(units[k][1],
                          units[k][2] * HoursPerDay,
                          units[k][2] * HoursPerDay + HoursPerDay)),
                   lead_time_hours |-> Frac(1, 1),
                   change_failure_rate |-> Zero,
                   mttr_hours |-> Zero])
        /\ last' = [op |-> "app_process_metrics_failed", repo |-> units[k][1],
                    again |-> FALSE, id |-> units[k][2], over |-> FALSE]
        /\ UNCHANGED <<tables, today, txns>>

\* process_metrics(start_date) of src/app/metrics_processor.py when a query
\* of the k-th unit raises
app_process_metrics_fails(start_date, k) ==
    LET first == app_start_date(start_date)
        units == app_units(fetchall(ActiveRepos), first, today)
    IN  /\ k \in 1..Len(units)
        /\ dora_metrics' =
              rollback(dora_metrics, app_uncommitted(dora_metrics, units, k - 1))
        /\ last' = [op |-> "app_process_metrics_failed", repo |-> units[k][1],
                    again |-> FALSE, id |-> units[k][2], over |-> FALSE]
        /\ UNCHANGED <<tables, today, txns>>

\* process_metrics() of src/metrics_processor.py when a query of the k-th
\* repository raises
process_metrics_fails(k) ==
    LET end_time == today * HoursPerDay
        start_time == end_time - HoursPerDay
        metric_date == Date(start_time)
        repos == fetchall(ActiveRepos)
    IN  /\ k \in 1..Len(repos)
        /\ dora_metrics' =
              rollback(dora_metrics,
                       uncommitted(dora_metrics, repos, k - 1, start_time,
                                   end_time, metric_date))
        /\ last' = [op |-> "process_metrics_failed", repo |-> repos[k],
                    again |-> FALSE, id |-> metric_date, over |-> FALSE]
        /\ UNCHANGED <<tables, today, txns>>

(***************************************************************************)
(* SpecFail: bulk imports of deployment 2 (repository 1, staging) and      *)
(* deployment 3 (repository 2, production), created at hour 10 or hour 24, *)
(* and the two aggregators running during day 1, each run completing or    *)
(* failing at one of its units.                                            *)
(***************************************************************************)
FailDeploymentIds == {2, 3}

FailApi ==
    [prs |-> [r \in Repos |-> {}],
     deps |-> [r \in Repos |->
        {[deployment_id |-> id, environment |-> AggEnvironment(id),
          sha |-> AggSha(id), created_at |-> t] :
            id \in {i \in FailDeploymentIds : RepoOfDeployment(i) = r},
            t \in AggDeploymentTimes}],
     issues |-> [r \in Repos |-> {}]]

\* the units of the longest run: every repository on every day up to today
FailUnits == 1..(Cardinality(Repos) * (AggToday + 1))

AppProcessMetricsFails ==
    \E start_date \in {NULL} \cup 0..AggToday, k \in FailUnits :
        app_process_metrics_fails(start_date, k)

ProcessMetricsFails == \E k \in 1..Cardinality(Repos) : process_metrics_fails(k)

NextFail ==
    \/ Backfill(FailApi)
    \/ AppProcessMetrics
    \/ process_metrics
    \/ AppProcessMetricsFails
    \/ ProcessMetricsFails

SpecFail == InitAgg /\ [][NextFail]_vars

\* C16: when a query of the per-day computation for (repo, date) raises, the
\* rows stored for that pair are the rows stored before the run, no row is
\* added for it; and every run that completes afterwards leaves, for each pair
\* it processes, the row a first-time computation gives.
C16_FailedUnitPersistsNothing ==
    /\ [][last'.op \in {"app_process_metrics_failed", "process_metrics_failed"}
            => RowsOf(dora_metrics', <<last'.repo, last'.id>>) =
                   RowsOf(dora_metrics, <<last'.repo, last'.id>>)]_vars
    /\ [](\A key \in ProcessedKeys :
            RowsOf(dora_metrics, key) =
                RowsOf(IF last.op = "app_process_metrics"
                       THEN app_fresh(last.id) ELSE fresh(last.id), key))
    /\ [][(/\ last.op \in {"app_process_metrics_failed", "process_metrics_failed"}
           /\ last'.op \in {"app_process_metrics", "process_metrics"}
           /\ <<last.repo, last.id>> \in ProcessedKeys')
            => Cardinality(RowsOf(dora_metrics', <<last.repo, last.id>>)) = 1]_vars

\* C16 is exercised: a run failed at a unit that counts a deployment and had
\* no stored row, after an earlier unit of the same run had been computed,
\* and the table still has no row for the failed unit.
C16_Witness ==
    /\ last.op = "app_process_metrics_failed"
    /\ RowsOf(dora_metrics, <<last.repo, last.id>>) = {}
    /\ app_prod_deployments(last.repo, last.id * HoursPerDay,
                            last.id * HoursPerDay + HoursPerDay) # {}
    /\ last.id > Date(EarliestCreatedAt)

\* C17 as stated: when a query of the k-th unit of a batch run raises, only
\* that unit is lost: every unit the run computed before it has, after the
\* run, the row the per-day aggregation gives for it.
C17_OtherUnitsPersisted ==
    [][\A start_date \in {NULL} \cup 0..AggToday, k \in FailUnits :
        app_process_metrics_fails(start_date, k) =>
            LET units == app_units(fetchall(ActiveRepos),
                                   app_start_date(start_date), today)
            IN  \A j \in 1..(k - 1) :
                    RowsOf(dora_metrics', units[j]) =
                        app_process_repo_metrics({}, units[j][1],
                            units[j][2] * HoursPerDay,
                            units[j][2] * HoursPerDay + HoursPerDay,
                            units[j][2])
      ]_vars

(***************************************************************************)
(* SpecE2E: one repository observed on 2024-01-03.  Times are whole hours  *)
(* since 2024-01-01T00:00:00Z, so 2024-01-02 is day 1.  Deployment 1       *)
(* (production, success, commit abc) is reported at 2024-01-02T10:00, pull *)
(* request 1 (merge commit abc, first commit 2024-01-01T08:00) is merged,  *)
(* issue 1 is opened at 2024-01-02T11:00 and closed at 2024-01-02T14:00;   *)
(* the three webhook events arrive in any order and any number of times,   *)
(* the link repair script and the two aggregators run at any moment.       *)
(***************************************************************************)
E2EToday == 2
E2EDeployedAt == 34
E2EFirstCommitAt == 8
E2EMergedAt == 30
E2EIssueCreatedAt == 35
E2EIssueClosedAt == 38

E2EDeploymentEvents ==
    {[repo_id |-> 1, deployment_id |-> 1,
      deployment_environment |-> "production", sha |-> "abc",
      state |-> s, created_at |-> E2EDeployedAt,
      environment |-> "production", workflow_run |-> KeyAbsent] :
        s \in {"success", "in_progress"}}

E2EPullRequestEvents ==
    {[action |-> "closed", merged |-> TRUE, repo_id |-> 1, pr_id |-> 1,
      merge_commit_sha |-> "abc", created_at |-> E2EFirstCommitAt,
      merged_at |-> E2EMergedAt, first_commit_at |-> E2EFirstCommitAt]}

E2EIssuesEvents ==
    {[action |-> "opened", repo_id |-> 1, issue_id |-> 1,
      created_at |-> E2EIssueCreatedAt, closed_at |-> NULL],
     [action |-> "closed", repo_id |-> 1, issue_id |-> 1,
      created_at |-> E2EIssueCreatedAt, closed_at |-> E2EIssueClosedAt]}

InitE2E ==
    /\ deployments = {}
    /\ pull_requests = {}
    /\ incidents = {}
    /\ deployment_prs = EmptyLinks
    /\ dora_metrics = {}
    /\ today = E2EToday
    /\ txns = NoTxns
    /\ last = [op |-> "init", repo |-> 0, again |-> FALSE, id |-> 0,
               over |-> FALSE]

NextE2E ==
    \/ DeploymentEvent(E2EDeploymentEvents)
    \/ PullRequestEvent(E2EPullRequestEvents)
    \/ IssuesEvent(E2EIssuesEvents)
    \/ fix_data_links
    \/ AggIncProcessMetrics
    \/ process_metrics

SpecE2E == InitE2E /\ [][NextE2E]_vars

\* the stored state of the scenario: deployment 1 at hour 34 with commit abc,
\* pull request 1 with merge commit abc and first commit at hour 8, linked
D1P1Linked ==
    /\ \E d \in deployments :
          /\ deployments = {d}
          /\ d.deployment_id = 1 /\ d.status = "success" /\ Production(d)
          /\ d.created_at = E2EDeployedAt /\ d.commit_sha = "abc"
    /\ \E p \in pull_requests :
          /\ pull_requests = {p}
          /\ p.pr_id = 1 /\ p.commit_sha = "abc"
          /\ p.first_commit_at = E2EFirstCommitAt
    /\ LinkSet = {<<1, 1>>}

\* C18: with deployment D1 (success, production, 2024-01-02T10:00, commit
\* abc) and merged pull request P1 (merge commit abc, first commit
\* 2024-01-01T08:00) stored and linked and no incident stored, the row an
\* aggregation run persists for (repository, 2024-01-02) has
\* deployment_frequency 1, lead_time_hours 26.0, change_failure_rate 0.0 and
\* mttr_hours 0.0.
C18_EndToEndWithoutIncident ==
    (D1P1Linked /\ incidents = {} /\ <<1, 1>> \in ProcessedKeys) =>
        RowsOf(dora_metrics, <<1, 1>>) =
            {[repo_id |-> 1, metric_date |-> 1,
              deployment_frequency |-> 1,
              lead_time_hours |-> Frac(26, 1),
              change_failure_rate |-> Zero,
              mttr_hours |-> Zero]}

\* C18 is exercised: the scenario is stored, linked by the repair script's
\* run or by the pull request event, and 2024-01-02 has been aggregated by
\* the run of src/app/metrics_processor.py.
C18_Witness ==
    /\ D1P1Linked
    /\ incidents = {}
    /\ last.op = "app_process_metrics"
    /\ <<1, 1>> \in ProcessedKeys
    /\ RowsOf(dora_metrics, <<1, 1>>) # {}

\* the stored state of the second scenario: deployment 1 at hour 34 and
\* incident 1 created at hour 35, closed at hour 38, is_incident, linked to
\* deployment 1
D1I1Linked ==
    /\ \E d \in deployments :
          /\ deployments = {d}
          /\ d.deployment_id = 1 /\ d.status = "success" /\ Production(d)
          /\ d.created_at = E2EDeployedAt
    /\ \E i \in incidents :
          /\ incidents = {i}
          /\ i.issue_id = 1 /\ i.is_incident /\ i.deployment_id = 1
          /\ i.created_at = E2EIssueCreatedAt
          /\ i.closed_at = E2EIssueClosedAt

\* C19: with deployment D1 stored and incident I1 (created 2024-01-02T11:00,
\* closed 2024-01-02T14:00, is_incident = true) stored and linked to D1, the
\* row an aggregation run persists for (repository, 2024-01-02) has
\* deployment_frequency 1, change_failure_rate 100.0 and mttr_hours 3.0.
C19_EndToEndWithIncident ==
    (D1I1Linked /\ <<1, 1>> \in ProcessedKeys) =>
        /\ RowsOf(dora_metrics, <<1, 1>>) # {}
        /\ \A m \in RowsOf(dora_metrics, <<1, 1>>) :
              /\ m.deployment_frequency = 1
              /\ m.change_failure_rate = Frac(100, 1)
              /\ m.mttr_hours = Frac(3, 1)

\* C19 is exercised: the second scenario is stored and 2024-01-02 has been
\* aggregated by the run of src/metrics_processor.py.
C19_Witness ==
    /\ D1I1Linked
    /\ last.op = "process_metrics"
    /\ <<1, 1>> \in ProcessedKeys
    /\ RowsOf(dora_metrics, <<1, 1>>) # {}

(***************************************************************************)
(* SpecIngest: deployment ingestion alone, with nothing assumed about what *)
(* a later event or listing says of a deployment already stored.  Every    *)
(* deployment identifier is reported in two versions that differ in every  *)
(* attribute: version 1 under repository 1, first success status at hour   *)
(* 0, commit a, environment production, workflow Deploy; version 2 under   *)
(* repository 2, first success status at hour 5, commit b, environment     *)
(* staging, workflow release.  A listing of the importer of src/ carries   *)
(* one or two success statuses of a deployment, the second an hour later.  *)
(***************************************************************************)
IngestDeployments == 2
IngestVersions == {1, 2}
IngestCreatedAt(v) == IF v = 1 THEN 0 ELSE 5
IngestWorkflow(v) == IF v = 1 THEN "Deploy" ELSE "release"

IngestEvents ==
    {[repo_id |-> v, deployment_id |-> id,
      deployment_environment |-> AggEnvironment(v), sha |-> AggSha(v),
      state |-> s, created_at |-> IngestCreatedAt(v),
      environment |-> KeyAbsent, workflow_run |-> IngestWorkflow(v)] :
        id \in 1..IngestDeployments, v \in IngestVersions,
        s \in {"success", "failure"}}

\* the first success status of a deployment, as the importers read it
IngestListed(id, v, later) ==
    [deployment_id |-> id, environment |-> AggEnvironment(v), sha |-> AggSha(v),
     created_at |-> IngestCreatedAt(v) + later]

IngestDeploymentEvent == \E payload \in IngestEvents : handle_deployment_event(payload)

IngestBackfill ==
    \E v \in IngestVersions :
        \E deps \in SUBSET {IngestListed(id, v, 0) : id \in 1..IngestDeployments} :
            backfill(v, TRUE, {}, deps, {})

IngestRootBackfill ==
    \E v \in IngestVersions, id \in 1..IngestDeployments :
        \E deps \in {<<IngestListed(id, v, 0)>>,
                     <<IngestListed(id, v, 0), IngestListed(id, v, 1)>>,
                     <<IngestListed(id, v, 1), IngestListed(id, v, 0)>>} :
            root_backfill(v, {}, deps, {})

NextIngest ==
    \/ IngestDeploymentEvent
    \/ IngestBackfill
    \/ IngestRootBackfill

SpecIngest == Init /\ [][NextIngest]_vars

\* C20: after any sequence of deployment events and bulk imports, repeated
\* ones included, the deployments table holds one row per deployment
\* identifier, and every stored row keeps its created_at, commit hash,
\* environment and repository identifier through every later ingestion
\* (only its status and payload may change).
C20_OneRowPerDeploymentFirstValuesKept ==
    /\ [](\A d, e \in deployments : d.deployment_id = e.deployment_id => d = e)
    /\ [][\A d \in deployments :
            \E e \in deployments' :
                /\ e.deployment_id = d.deployment_id
                /\ e.created_at = d.created_at
                /\ e.commit_sha = d.commit_sha
                /\ e.environment = d.environment
                /\ e.repo_id = d.repo_id]_vars

\* C20 is exercised: a deployment first ingested in version 1 has been
\* ingested again by a version 2 event: the row has the payload of version 2
\* and the repository, created_at, commit and environment of version 1.
C20_Witness ==
    \E d \in deployments :
        /\ d.payload.workflow_run = IngestWorkflow(2)
        /\ d.repo_id = 1
        /\ d.created_at = IngestCreatedAt(1)
        /\ d.commit_sha = AggSha(1)
        /\ d.environment = AggEnvironment(1)

(***************************************************************************)
(* SpecCalc: the pure functions applied to inputs drawn from small sets.   *)
(* Each step calls one function and records the call in `last`: its        *)
(* arguments and what it returned.  The tables stay empty.                 *)
(***************************************************************************)
\* src/app/dora_calculations.py detect_production_deployment(environment,
\* payload); a JSON null workflow_run raises inside the try and the function
\* returns False
app_detect_production_deployment(environment, payload) ==
    LET env == Lower(Chars[environment])
    IN  IF \E t \in EventEnvTerms : Contains(env, t)
        THEN TRUE
        ELSE IF payload.workflow_run = JsonNull
        THEN FALSE
        ELSE LET workflow_name == Lower(Chars[GetOrEmpty(payload.workflow_run)])
             IN  \E t \in EventWorkflowTerms : Contains(workflow_name, t)

\* the environment labels and workflow names tried ("" is a missing or empty
\* environment label)
CalcEnvironments == {"", "production", "Prod", "staging", "main", "release", "Deploy"}
CalcWorkflows == {KeyAbsent, JsonNull, "", "Deploy", "release", "Prod", "main", "ci"}

\* one deployment classified by the three filters: at event time by
\* handle_deployment_event (the payload's top-level environment key is the
\* label here), at metrics time by process_repo_metrics
Classify ==
    \E environment \in CalcEnvironments, workflow_run \in CalcWorkflows :
        /\ last' = [op |-> "classify",
                    environment |-> environment,
                    workflow_run |-> workflow_run,
                    event |-> detect_production_deployment(
                                [environment |-> IF environment = ""
                                                 THEN KeyAbsent ELSE environment,
                                 workflow_run |-> workflow_run]),
                    app_event |-> app_detect_production_deployment(environment,
                                [workflow_run |-> workflow_run]),
                    metrics |-> is_production_deployment(environment,
                                [workflow_run |-> workflow_run])]
        /\ UNCHANGED <<tables, dora_metrics, today, txns>>

\* the classification as specified: the environment label contains prod,
\* production or live, or the workflow name contains deploy, prod or release
\* (case-insensitive); absent fields contain nothing
SpecifiedProduction(environment, workflow_run) ==
    \/ \E t \in EventEnvTerms : Contains(Lower(Chars[environment]), t)
    \/ /\ workflow_run \notin {KeyAbsent, JsonNull}
       /\ \E t \in EventWorkflowTerms : Contains(Lower(Chars[workflow_run]), t)

\* C21 as stated: for every environment label and workflow name the
\* metrics-time filter is_production_deployment and the event-time filter
\* detect_production_deployment return the same boolean, and it is true
\* exactly when the environment label contains prod, production or live or
\* the workflow name contains deploy, prod or release.
C21_SameClassificationAtBothSites ==
    last.op = "classify" =>
        /\ last.metrics = last.app_event
        /\ last.metrics = last.event
        /\ last.metrics = SpecifiedProduction(last.environment, last.workflow_run)

(***************************************************************************)
(* SpecLabels: issue ingestion on the three paths.  Issue 1 is labelled    *)
(* bug, issue 2 Incident, issue 3 sev1; all belong to repository 1, are    *)
(* opened at hour 11 and are open or closed at hour 14.  No deployment is  *)
(* stored, so no issue gets a deployment reference.                        *)
(***************************************************************************)
LabelIssues == 3
LabelsOfIssue(id) ==
    IF id = 1 THEN {"bug"} ELSE IF id = 2 THEN {"Incident"} ELSE {"sev1"}

LabelIssuesEvents ==
    {[action |-> a, repo_id |-> 1, issue_id |-> id,
      created_at |-> AggIncCreatedAt, closed_at |-> IF a = "closed" THEN 14 ELSE NULL,
      labels |-> LabelsOfIssue(id)] :
        id \in 1..LabelIssues, a \in {"opened", "labeled", "closed"}}

LabelApi ==
    [prs |-> [r \in Repos |-> {}],
     deps |-> [r \in Repos |-> {}],
     issues |-> [r \in Repos |->
        IF r = 1
        THEN {[issue_id |-> id, created_at |-> AggIncCreatedAt, closed_at |-> c,
               labels |-> LabelsOfIssue(id)] :
                id \in 1..LabelIssues, c \in {NULL}}
        ELSE {}]]

LabelRootApi ==
    [prs |-> LabelApi.prs,
     deps |-> [r \in Repos |-> {<<>>}],
     issues |-> LabelApi.issues]

NextLabels ==
    \/ IssuesEvent(LabelIssuesEvents)
    \/ Backfill(LabelApi)
    \/ RootBackfill(LabelRootApi)

SpecLabels == Init /\ [][NextLabels]_vars

\* the incident vocabulary as specified: incident, outage, failure, or a
\* label starting with sev (case-insensitive)
StartsWith(text, prefix) ==
    Len(text) >= Len(prefix) /\ SubSeq(text, 1, Len(prefix)) = prefix

InVocabulary(label) ==
    \/ Lower(Chars[label]) \in {<<"i","n","c","i","d","e","n","t">>,
                                 <<"o","u","t","a","g","e">>,
                                 <<"f","a","i","l","u","r","e">>}
    \/ StartsWith(Lower(Chars[label]), <<"s","e","v">>)

\* C22 as stated: whatever path stored it, an issue's is_incident flag is
\* true exactly when at least one of its labels belongs to the incident
\* vocabulary.
C22_FlagFollowsLabels ==
    \A i \in incidents :
        i.is_incident = (\E l \in LabelsOfIssue(i.issue_id) : InVocabulary(l))

\* the instants tried, in hours
CalcMaxHour == 3
CalcInstants == 0..CalcMaxHour

LeadTime ==
    \E first_commit \in CalcInstants, merged_at \in {NULL} \cup CalcInstants,
       deploy_time \in CalcInstants :
        /\ last' = [op |-> "calculate_lead_time",
                    first_commit |-> first_commit,
                    merged_at |-> merged_at,
                    deploy_time |-> deploy_time,
                    result |-> calculate_lead_time(first_commit, merged_at,
                                                   deploy_time)]
        /\ UNCHANGED <<tables, dora_metrics, today, txns>>

Mttr ==
    \E created_at \in CalcInstants, closed_at \in {NULL} \cup CalcInstants :
        /\ last' = [op |-> "calculate_mttr",
                    created_at |-> created_at,
                    closed_at |-> closed_at,
                    result |-> calculate_mttr(created_at, closed_at)]
        /\ UNCHANGED <<tables, dora_metrics, today, txns>>

\* the lists tried: up to CalcMaxLen values among 1.0 .. 4.0; `values` is the
\* caller's list after the call (sorted() copies, the list is not touched)
CalcMaxLen == 4
CalcValues == {Frac(v, 1) : v \in 1..4}
CalcLists == UNION {[1..n -> CalcValues] : n \in 0..CalcMaxLen}

Median ==
    \E values \in CalcLists :
        /\ last' = [op |-> "median",
                    given |-> values,
                    values |-> values,
                    result |-> median(values)]
        /\ UNCHANGED <<tables, dora_metrics, today, txns>>

NextCalc ==
    \/ Classify
    \/ LeadTime
    \/ Mttr
    \/ Median

SpecCalc == Init /\ [][NextCalc]_vars

\* C23: calculate_lead_time returns max(deploy_time - first_commit in hours,
\* 0.1) when merged_at is absent or deploy_time < merged_at, a value that is
\* never zero or negative and is 0.1 for equal instants; otherwise it returns
\* deploy_time - first_commit in hours, unfloored.
C23_LeadTimeFloorInFallback ==
    last.op = "calculate_lead_time" =>
        LET diff == Frac(last.deploy_time - last.first_commit, 1)
            fallback == last.merged_at = NULL \/ last.deploy_time < last.merged_at
        IN  /\ fallback =>
                /\ last.result = (IF FracLess(diff, Frac(1, 10))
                                  THEN Frac(1, 10) ELSE diff)
                /\ FracLess(Zero, last.result)
                /\ last.deploy_time = last.first_commit => last.result = Frac(1, 10)
            /\ ~fallback => last.result = diff

\* C23 is exercised: a call outside the fallback branches returned a
\* negative duration (deploy_time after merged_at, first commit later still).
C23_Witness ==
    /\ last.op = "calculate_lead_time"
    /\ last.merged_at # NULL
    /\ last.deploy_time >= last.merged_at
    /\ FracLess(last.result, Zero)

\* C24: calculate_mttr returns 0.0 when closed_at is absent or earlier than
\* created_at, closed_at - created_at in hours otherwise, never a negative
\* duration.
C24_MttrNeverNegative ==
    last.op = "calculate_mttr" =>
        /\ last.result =
              (IF last.closed_at = NULL \/ last.closed_at < last.created_at
               THEN Zero
               ELSE Frac(last.closed_at - last.created_at, 1))
        /\ ~FracLess(last.result, Zero)

\* C24 is exercised: a call with closed_at earlier than created_at returned 0.0.
C24_Witness ==
    /\ last.op = "calculate_mttr"
    /\ last.closed_at # NULL
    /\ last.closed_at < last.created_at
    /\ last.result = Zero

\* the number of elements of the list below v, and not above v
Below(values, v) == Cardinality({k \in 1..Len(values) : FracLess(values[k], v)})
NotAbove(values, v) == Cardinality({k \in 1..Len(values) : ~FracLess(v, values[k])})

\* the k-th smallest element of the list, whatever its order
KthSmallest(values, k) ==
    CHOOSE v \in {values[j] : j \in 1..Len(values)} :
        Below(values, v) < k /\ k <= NotAbove(values, v)

\* C25: median returns 0.0 for the empty list, the middle element in sorted
\* order for odd length and the average of the two middle elements in sorted
\* order for even length, whatever the order of the list, and leaves the
\* caller's list as it was.
C25_MedianOfSorted ==
    last.op = "median" =>
        LET n == Len(last.given)
        IN  /\ last.values = last.given
            /\ n = 0 => last.result = Zero
            /\ (n > 0 /\ n % 2 = 1) =>
                  last.result = KthSmallest(last.given, (n + 1) \div 2)
            /\ (n > 0 /\ n % 2 = 0) =>
                  last.result =
                      FracDiv(FracAdd(KthSmallest(last.given, n \div 2),
                                      KthSmallest(last.given, n \div 2 + 1)), 2)

\* C25 is exercised: median([4, 1, 3, 2]) returned 2.5.
C25_Witness ==
    /\ last.op = "median"
    /\ last.given = <<Frac(4, 1), Frac(1, 1), Frac(3, 1), Frac(2, 1)>>
    /\ last.result = Frac(5, 2)

(***************************************************************************)
(* Concurrent aggregation passes (src/metrics_processor.py process_metrics *)
(* called from main.py metrics_job and webhook_server.py calculate_now).   *)
(* Each statement of a pass is one step; under the server's default        *)
(* isolation level every statement reads what was committed before it      *)
(* started.  INSERT ... ON CONFLICT DO UPDATE locks the row of its key     *)
(* until the transaction ends, so a second writer of the same key waits    *)
(* for the first to commit and then replaces the committed row.            *)
(***************************************************************************)
StartTime == today * HoursPerDay - HoursPerDay
EndTime == today * HoursPerDay

\* the statement of process_repo_metrics that stores the results
StoreResults(tbl, row) == UpsertMetric(tbl, row)

\* conn.commit(): the rows written by the pass become the stored rows
RECURSIVE CommitRows(_, _)
CommitRows(tbl, rows) ==
    IF rows = <<>>
    THEN tbl
    ELSE CommitRows(StoreResults(tbl, Head(rows)), Tail(rows))

SameKey(m, n) == m.repo_id = n.repo_id /\ m.metric_date = n.metric_date

\* conn = get_db_connection(); SELECT DISTINCT repo_id FROM (...)
BeginPass(p) ==
    /\ txns[p].pc = "idle"
    /\ LET repos == fetchall(ActiveRepos)
       IN  txns' = [txns EXCEPT ![p] =
                [Idle EXCEPT !.pc = IF repos = <<>> THEN "commit" ELSE "count",
                             !.repos = repos]]
    /\ last' = [op |-> "begin", pass |-> p, over |-> FALSE, overlapped |-> FALSE]
    /\ UNCHANGED <<tables, dora_metrics, today>>

\* SELECT the COUNT of the repository's successful deployments of the window
SelectCount(p) ==
    /\ txns[p].pc = "count"
    /\ LET repo_id == Head(txns[p].repos)
       IN  txns' = [txns EXCEPT ![p].pc = "lead",
                ![p].row = [NoRow EXCEPT
                    !.repo_id = repo_id,
                    !.metric_date = Date(StartTime),
                    !.deployment_frequency =
                        Cardinality(counted_deployments(repo_id, StartTime, EndTime))]]
    /\ last' = [op |-> "select", pass |-> p, over |-> FALSE, overlapped |-> FALSE]
    /\ UNCHANGED <<tables, dora_metrics, today>>

\* the two SELECTs of lead times, then median(lead_times)
SelectLeadTimes(p) ==
    /\ txns[p].pc = "lead"
    /\ txns' = [txns EXCEPT ![p].pc = "failed",
            ![p].row.lead_time_hours =
                median(lead_times(Head(txns[p].repos), StartTime, EndTime))]
    /\ last' = [op |-> "select", pass |-> p, over |-> FALSE, overlapped |-> FALSE]
    /\ UNCHANGED <<tables, dora_metrics, today>>

\* SELECT the COUNT of failed deployments, then calculate_failure_rate
SelectFailed(p) ==
    /\ txns[p].pc = "failed"
    /\ txns' = [txns EXCEPT ![p].pc = "mttr",
            ![p].row.change_failure_rate =
                calculate_failure_rate(txns[p].row.deployment_frequency,
                    failed_deployments(Head(txns[p].repos), StartTime, EndTime))]
    /\ last' = [op |-> "select", pass |-> p, over |-> FALSE, overlapped |-> FALSE]
    /\ UNCHANGED <<tables, dora_metrics, today>>

\* SELECT created_at, closed_at of the closed incidents, then median(mttr_times)
SelectMttr(p) ==
    /\ txns[p].pc = "mttr"
    /\ txns' = [txns EXCEPT ![p].pc = "upsert",
            ![p].row.mttr_hours =
                median(mttr_times(Head(txns[p].repos), StartTime, EndTime))]
    /\ last' = [op |-> "select", pass |-> p, over |-> FALSE, overlapped |-> FALSE]
    /\ UNCHANGED <<tables, dora_metrics, today>>

\* INSERT INTO dora_metrics ... ON CONFLICT (repo_id, metric_date) DO UPDATE:
\* waits while another transaction holds the row of this key
Upsert(p) ==
    /\ txns[p].pc = "upsert"
    /\ \A q \in Passes \ {p} :
            \A w \in txns[q].written : ~SameKey(w, txns[p].row)
    /\ txns' = [txns EXCEPT
            ![p].pc = IF Tail(txns[p].repos) = <<>> THEN "commit" ELSE "count",
            ![p].repos = Tail(txns[p].repos),
            ![p].written = StoreResults(txns[p].written, txns[p].row)]
    /\ last' = [op |-> "upsert", pass |-> p, over |-> FALSE, overlapped |-> FALSE]
    /\ UNCHANGED <<tables, dora_metrics, today>>

\* conn.commit()
Commit(p) ==
    /\ txns[p].pc = "commit"
    /\ LET new == CommitRows(dora_metrics, fetchall(txns[p].written))
       IN  /\ dora_metrics' = new
           /\ last' = [op |-> "commit", pass |-> p,
                       over |-> Overwrites(dora_metrics, new),
                       overlapped |-> txns[p].overlapped]
    /\ txns' = [q \in Passes |->
            IF q = p THEN Idle
            ELSE IF txns[q].pc = "idle" \/ txns[p].written = {} THEN txns[q]
            ELSE [txns[q] EXCEPT !.overlapped = TRUE]]
    /\ UNCHANGED <<tables, today>>

Pass == \E p \in Passes :
            \/ BeginPass(p)
            \/ SelectCount(p)
            \/ SelectLeadTimes(p)
            \/ SelectFailed(p)
            \/ SelectMttr(p)
            \/ Upsert(p)
            \/ Commit(p)

(***************************************************************************)
(* SpecConc: two passes interleaved, statement by statement, with the      *)
(* events of repository 1's deployments and of one issue, during day 1.    *)
(***************************************************************************)
ConcDeployments == 2
ConcToday == 1
ConcDeployedAt == 10
ConcIssueCreatedAt == 11
ConcIssueClosedAt == 14

ConcDeploymentEvents ==
    {[repo_id |-> 1, deployment_id |-> id,
      deployment_environment |-> "production", sha |-> "a",
      state |-> "success", created_at |-> ConcDeployedAt,
      environment |-> "production", workflow_run |-> KeyAbsent] :
        id \in 1..ConcDeployments}

ConcIssuesEvents ==
    {[action |-> "closed", repo_id |-> 1, issue_id |-> 1,
      created_at |-> ConcIssueCreatedAt, closed_at |-> ConcIssueClosedAt]}

InitConc ==
    /\ deployments = {}
    /\ pull_requests = {}
    /\ incidents = {}
    /\ deployment_prs = EmptyLinks
    /\ dora_metrics = {}
    /\ today = ConcToday
    /\ txns = NoTxns
    /\ last = [op |-> "init", pass |-> "", over |-> FALSE, overlapped |-> FALSE]

NextConc ==
    \/ DeploymentEvent(ConcDeploymentEvents)
    \/ IssuesEvent(ConcIssuesEvents)
    \/ Pass

SpecConc == InitConc /\ [][NextConc]_vars

\* C26: when passes for the same repository and date overlap, each commit
\* leaves exactly one row per (repository, date), and that row carries all
\* four measures of the committing pass, whole: the later writer replaces the
\* earlier one's row and no row mixes the measures of two passes.  Between
\* commits the stored rows do not change.
C26_LastWriterWinsWhole ==
    [][/\ \A p \in Passes :
            (txns[p].pc = "commit" /\ txns'[p].pc = "idle") =>
                /\ txns[p].written \subseteq dora_metrics'
                /\ \A m \in dora_metrics' :
                        \/ m \in txns[p].written
                        \/ m \in dora_metrics /\
                           \A w \in txns[p].written : ~SameKey(m, w)
                /\ \A m, n \in dora_metrics' : SameKey(m, n) => m = n
       /\ (\A p \in Passes : ~(txns[p].pc = "commit" /\ txns'[p].pc = "idle"))
            => dora_metrics' = dora_metrics]_vars

\* a pass has just committed a row over the different row that another pass
\* committed for the same key while this one was running
C26_Witness ==
    /\ last.op = "commit"
    /\ last.overlapped
    /\ last.over

\* C27: linking an incident is deterministic under ties: the deployment that
\* handle_issues_event or step 3 of fix_data_links stores for an incident is
\* the only one its query can return from the stored snapshot, so every run
\* over that snapshot selects the same deployment.
C27_SameDeploymentOnEveryRun ==
    [][\A j \in incidents' :
            (/\ \/ last'.op = "handle_issues_event" /\ last'.id = j.issue_id
                \/ /\ last'.op = "fix_data_links"
                   /\ \E i \in incidents : /\ i.issue_id = j.issue_id
                                           /\ i.deployment_id = NULL
             /\ j.deployment_id # NULL)
            => \A d \in Closest(deployments, j.repo_id, j.created_at) :
                    d.deployment_id = j.deployment_id]_vars

\* C28: in every reachable state, every row (d, p) of deployment_prs joins a
\* stored deployment and a stored pull request of the same repository whose
\* stored commit hashes are equal, also after a pull request was stored again
\* with another merge commit hash.
C28_LinksJoinEqualHashes ==
    \A k \in LinkSet :
        \E d \in deployments, p \in pull_requests :
            /\ d.deployment_id = k[1]
            /\ p.pr_id = k[2]
            /\ d.repo_id = p.repo_id
            /\ d.commit_sha = p.commit_sha

(***************************************************************************)
(* SpecWebhook: only the webhook handlers of deployment_status and         *)
(* pull_request events run; no repair script and no bulk import.           *)
(***************************************************************************)
NextWebhook ==
    \/ DeploymentEvent(LinkDeploymentEvents)
    \/ PullRequestEvent(LinkPullRequestEvents)

SpecWebhook == Init /\ [][NextWebhook]_vars

\* C29: once the webhook handlers have processed a merged pull request event
\* and a successful production deployment event of the same repository and
\* commit hash (both rows are stored), the link between them exists, in
\* whichever order the two events arrived and without a linking pass.
C29_LinkedOnceBothProcessed ==
    \A d \in deployments, p \in pull_requests :
        (d.repo_id = p.repo_id /\ SqlEq(d.commit_sha, p.commit_sha))
            => <<d.deployment_id, p.pr_id>> \in LinkSet

(***************************************************************************)
(* SpecMissing: records whose commit hash is missing.  A payload without   *)
(* the key yields '' (pr.get('merge_commit_sha', ''), deployment.get('sha',*)
(* '')), a JSON null yields SQL NULL; commit "a" is a present hash.        *)
(***************************************************************************)
MissingShas == {"", NullSha}

MissingDeploymentEvents ==
    {[repo_id |-> RepoOfDeployment(id), deployment_id |-> id,
      deployment_environment |-> "production", sha |-> sha,
      state |-> "success", created_at |-> 0,
      environment |-> "production", workflow_run |-> KeyAbsent] :
        id \in 1..LinkDeployments, sha \in MissingShas \cup {"a"}}

MissingPullRequestEvents ==
    {[action |-> "closed", merged |-> TRUE, repo_id |-> RepoOfPr(id), pr_id |-> id,
      merge_commit_sha |-> sha, created_at |-> 0, merged_at |-> 0,
      first_commit_at |-> 0] :
        id \in 1..LinkPullRequests, sha \in MissingShas \cup {"a"}}

MissingApi ==
    [prs |-> [r \in Repos |->
        {[pr_id |-> id, merge_commit_sha |-> sha, created_at |-> 0,
          merged_at |-> 0, first_commit_at |-> 0] :
            id \in {i \in 1..LinkPullRequests : RepoOfPr(i) = r},
            sha \in MissingShas \cup {"a"}}],
     deps |-> [r \in Repos |->
        {[deployment_id |-> id, environment |-> "production", sha |-> sha,
          created_at |-> 0] :
            id \in {i \in 1..LinkDeployments : RepoOfDeployment(i) = r},
            sha \in MissingShas \cup {"a"}}],
     issues |-> [r \in Repos |-> {}]]

MissingRootApi ==
    [prs |-> MissingApi.prs,
     deps |-> [r \in Repos |-> {<<>>} \cup {<<d>> : d \in MissingApi.deps[r]}],
     issues |-> MissingApi.issues]

NextMissing ==
    \/ DeploymentEvent(MissingDeploymentEvents)
    \/ PullRequestEvent(MissingPullRequestEvents)
    \/ fix_data_links
    \/ Backfill(MissingApi)
    \/ RootBackfill(MissingRootApi)

SpecMissing == Init /\ [][NextMissing]_vars

\* C30: no link joins a deployment and a pull request that are both stored
\* without a commit hash ('' or NULL): neither the webhook path nor a linking
\* pass links on the basis of a missing hash.
C30_NoLinkOnMissingHash ==
    \A k \in LinkSet :
        ~\E d \in deployments, p \in pull_requests :
            /\ d.deployment_id = k[1]
            /\ p.pr_id = k[2]
            /\ d.commit_sha \in MissingShas
            /\ p.commit_sha \in MissingShas

====
